---- MODULE Spec2Model ----
(***************************************************************************)
(* State-machine model of the simulation core of the music note game       *)
(* (src/game.ts, function main).                                           *)
(*                                                                         *)
(* Units.  Times are integers in milliseconds (the source uses seconds).   *)
(* Pixel coordinates are integers in 1/1000 pixel, so that                  *)
(* speed [px/s] * delta [ms] is an exact integer.  Staff lines ("gridY")    *)
(* are integers in tenths of a grid cell (5.5 is 55).  An animation        *)
(* progress p is stored as the integer p * duration [ms], so progress = 1  *)
(* is the duration itself.  A nullable value is a sequence of length <= 1. *)
(* Rendering, audio and image loading are not modelled.                    *)
(***************************************************************************)
EXTENDS Integers, Sequences, FiniteSets, TLC

VARIABLES gameState, lives, score, obstacles, obstacleSpawner, player,
          movement, playerAnimation, noteDisplay, hitZoneFlash, uiState

vars == <<gameState, lives, score, obstacles, obstacleSpawner, player,
          movement, playerAnimation, noteDisplay, hitZoneFlash, uiState>>

\* The keyboard, which is outside the program: the note keys that are
\* physically down.  A key-down event of a key that is already down is the
\* auto-repeat of a held key.  No handler reads or writes this variable.
VARIABLE heldNoteKeys

allVars == <<vars, heldNoteKeys>>

----------------------------------------------------------------------------
(* Bounds of the model *)

\* number of capped frame steps one play session may take
MaxSteps == 252

\* canvas.width - UI_LAYOUT.sidebarWidth, in pixels (the canvas is created
\* by the host page)
GameWidth == 118

\* number of capped frame steps a play session may take in the long
\* sessions, in which the difficulty rises to its cap
MaxLongSteps == 9400

\* number of frame steps of a long session during which the player hits
\* every obstacle as soon as it is in the hit window and presses no wrong key
PerfectSteps == 9370

\* the sessions in which the level rises while an obstacle is in the pool:
\* number of frame steps of a session, and number of them during which the
\* player hits every obstacle at once
MaxRiseSteps == 5700
RisePerfectSteps == 5580

\* width of the play area, in pixels, of the sessions on a wider canvas, on
\* which an obstacle enters to the right of the hit window of a sixteenth
WideGameWidth == 149

\* canvas width minus sidebar width, in px, of the crossing sessions: every
\* hit window, the widest (400 px) included, ends left of the spawn point
CrossGameWidth == 533

\* crossing sessions: frames per session, and the frames of a session during
\* which the player hits every obstacle as soon as it is in the window
MaxCrossSteps == 7720

CrossPerfectSteps == 7600

\* frames run from each drawn state of the collision check
MaxCollideSteps == 3

\* canvas width minus sidebar width, in px, of the sessions in which an
\* obstacle of speed 180 catches up with one of speed 150 at the start of
\* the hit window
FarGameWidth == 1896

\* those sessions: frames per session, and the frames of a session during
\* which the player hits every obstacle as soon as it is in the window
MaxFarSteps == 2501

FarPerfectSteps == 2480

\* frames per session of the sessions in which no key is pressed: the
\* fifth obstacle is spawned at 10.0 s and missed 0.16 s later
MaxIdleSteps == 640

\* highest level at which the level functions are evaluated (the game
\* itself stays within 1..5)
MaxLevel == 12

\* gaps between two animation-frame timestamps, in ms
RawDeltas == {16, 1000}

\* width in px of the play area in the sessions in which two obstacles are
\* inside the hit window of the whole note at once
PressGameWidth == 784

\* time in ms after the last spawn up to which those sessions take frames
MaxPressSince == 448

\* keys of the key-down / key-up events
Keys == {"e", "R", "x"}

\* places a click lands on: the start button, the icon of a note value in
\* the sidebar, or anywhere else
ClickTargets == {"start", "half", "sixteenth", "elsewhere"}

----------------------------------------------------------------------------
(* Program constants *)

\* CONFIG, lives.max, the frame cap and the animation durations.  The
\* durations the source writes in seconds are in ms here: MOVE_SPEED 0.15,
\* the cap 0.016, fadeAnimation.duration 0.5, playerAnimation.duration 0.2,
\* hitZoneFlash.duration 0.3, noteDisplay.displayDuration 0.8.
\* MONSTER_IMAGES is the length of obstacleSpawner.monsterImages.
GRID_SIZE == 32
PLAYER_SIZE == 32
MOVE_SPEED == 150
PLAYER_INITIAL_GRID_X == 4
PLAYER_INITIAL_GRID_Y == 4
COLLISION_POINTS_GAINED == 100
BPM == 90
STAFF_POSITIONS == 9
MAX_LIVES == 5
DELTA_CAP == 16
FADE_DURATION == 500
PLAYER_ANIMATION_DURATION == 200
FLASH_DURATION == 300
DISPLAY_DURATION == 800
MONSTER_IMAGES == 4

NOTE_VALUES == {"whole", "half", "quarter", "eighth", "sixteenth"}

\* mutant of NOTE_KEY_MAP: one staff line per letter
NOTE_KEY_MAP_OneLine ==
  [k \in {"c", "d", "e", "f", "g", "a", "b"} |->
     CASE k = "c" -> <<65>>
       [] k = "d" -> <<60>>
       [] k = "e" -> <<55>>
       [] k = "f" -> <<50>>
       [] k = "g" -> <<80>>
       [] k = "a" -> <<75>>
       [] k = "b" -> <<70>>]

NOTE_KEY_MAP ==
  [k \in {"c", "d", "e", "f", "g", "a", "b"} |->
     CASE k = "c" -> <<65>>
       [] k = "d" -> <<60>>
       [] k = "e" -> <<55, 90>>
       [] k = "f" -> <<50, 85>>
       [] k = "g" -> <<80>>
       [] k = "a" -> <<75>>
       [] k = "b" -> <<70>>]

\* audio.noteNames, keyed by the staff line in tenths
noteNames ==
  [y \in {50, 55, 60, 65, 70, 75, 80, 85, 90} |->
     CASE y = 50 -> "F" [] y = 55 -> "E" [] y = 60 -> "D"
       [] y = 65 -> "C" [] y = 70 -> "B" [] y = 75 -> "A"
       [] y = 80 -> "G" [] y = 85 -> "F" [] y = 90 -> "E"]

\* trebleClef.x and trebleClef.width, in 1/1000 px
trebleClef == [x |-> 1 * GRID_SIZE * 1000, width |-> 3 * GRID_SIZE * 1000]

----------------------------------------------------------------------------
(* Helpers *)

Min(a, b) == IF a < b THEN a ELSE b
Max(a, b) == IF a > b THEN a ELSE b
Abs(a) == IF a < 0 THEN -a ELSE a

\* mutant of toLowerCase: the key x is taken for the letter e
toLowerCaseXForE(key) ==
  CASE key = "R" -> "r"
    [] key = "C" -> "c"
    [] key = "E" -> "e"
    [] key = "x" -> "e"
    [] OTHER -> key

\* String.prototype.toLowerCase on the keys of the model
toLowerCase(key) ==
  CASE key = "R" -> "r"
    [] key = "C" -> "c"
    [] key = "E" -> "e"
    [] OTHER -> key

\* (pixelY / CONFIG.GRID_SIZE).toFixed(1), as tenths of a grid cell
toFixed1GridY(pixelY) ==
  (pixelY * 10 + (GRID_SIZE * 1000) \div 2) \div (GRID_SIZE * 1000)

\* Math.round(gridY * 2) / 2 then toFixed(1), as tenths of a grid cell
roundedGridY(pixelY) ==
  5 * ((pixelY * 2 + (GRID_SIZE * 1000) \div 2) \div (GRID_SIZE * 1000))

----------------------------------------------------------------------------
(* Pure functions of the source *)

\* duration of a note value in thirds of a millisecond (60 / BPM seconds
\* per beat is 2000/3 ms at BPM = 90)
getNoteDuration(noteValue) ==
  LET beatDuration == (60 * 3000) \div BPM
  IN  CASE noteValue = "whole" -> beatDuration * 4
        [] noteValue = "half" -> beatDuration * 2
        [] noteValue = "quarter" -> beatDuration * 1
        [] noteValue = "eighth" -> beatDuration \div 2
        [] noteValue = "sixteenth" -> beatDuration \div 4
        [] OTHER -> beatDuration * 1

\* mutant of calculateDifficulty: the level is not capped
calculateDifficultyUncapped(elapsedTime) == elapsedTime \div 30000 + 1

calculateDifficulty(elapsedTime) == Min(5, elapsedTime \div 30000 + 1)

\* mutant of getSpawnInterval: the interval shrinks by 0.4 s per level
getSpawnIntervalSteep(difficulty) == Max(800, 2000 - (difficulty - 1) * 400)

\* mutant of getSpawnInterval: half the interval
getSpawnIntervalHalved(difficulty) ==
  Max(800, 2000 - (difficulty - 1) * 200) \div 2

getSpawnInterval(difficulty) == Max(800, 2000 - (difficulty - 1) * 200)

getObstacleSpeed(difficulty) == 150 + (difficulty - 1) * 30

\* overlayStartX = trebleClef.x + trebleClef.width
overlayStartX == trebleClef.x + trebleClef.width

\* mutant of overlayWidth: the width follows the obstacle speed of the level
overlayWidthAtSpeed(noteValue) ==
  (getNoteDuration(noteValue) * getObstacleSpeed(gameState.difficulty)) \div 3

\* overlayWidth = noteDuration * 150 (px/s), in 1/1000 px
overlayWidth(noteValue) == (getNoteDuration(noteValue) * 150) \div 3

overlayEndX(noteValue) == overlayStartX + overlayWidth(noteValue)

obstacleGenerator(pixelX, pixelY, imagePath, speed) ==
  [pixelX |-> pixelX, pixelY |-> pixelY, imagePath |-> imagePath,
   speed |-> speed, hasBeenAvoided |-> FALSE, hasCollided |-> FALSE,
   fadeAnimation |-> [isAnimating |-> FALSE, progress |-> 0]]

----------------------------------------------------------------------------
(* Animation sub-state machines *)

\* fadeAnimation.start / playerAnimation.start
animationStart(anim) == [anim EXCEPT !.isAnimating = TRUE, !.progress = 0]

\* mutant of animationUpdate: the progress is not clamped at the end
animationUpdateUnclamped(anim, delta, duration) ==
  IF anim.isAnimating
  THEN [anim EXCEPT !.progress = anim.progress + delta,
                    !.isAnimating = anim.progress + delta < duration]
  ELSE anim

\* fadeAnimation.update / playerAnimation.update
animationUpdate(anim, delta, duration) ==
  IF anim.isAnimating
  THEN IF anim.progress + delta >= duration
       THEN [anim EXCEPT !.progress = duration, !.isAnimating = FALSE]
       ELSE [anim EXCEPT !.progress = anim.progress + delta]
  ELSE anim

\* mutant of hitZoneFlashStart: the colour is not set
hitZoneFlashStartKeepsColor(flash, color) ==
  [flash EXCEPT !.isFlashing = TRUE, !.progress = 0]

hitZoneFlashStart(flash, color) ==
  [flash EXCEPT !.isFlashing = TRUE, !.color = color, !.progress = 0]

hitZoneFlashUpdate(flash, delta) ==
  IF flash.isFlashing
  THEN IF flash.progress + delta >= FLASH_DURATION
       THEN [flash EXCEPT !.progress = FLASH_DURATION, !.isFlashing = FALSE]
       ELSE [flash EXCEPT !.progress = flash.progress + delta]
  ELSE flash

noteDisplayShow(display, pixelY) ==
  LET noteKey == roundedGridY(pixelY)
  IN  [display EXCEPT
         !.noteName = IF noteKey \in DOMAIN noteNames
                      THEN <<noteNames[noteKey]>> ELSE <<"C">>,
         !.displayTime = 0]

noteDisplayUpdate(display, delta) ==
  IF display.noteName # <<>>
  THEN IF display.displayTime + delta >= DISPLAY_DURATION
       THEN [display EXCEPT !.displayTime = display.displayTime + delta,
                            !.noteName = <<>>]
       ELSE [display EXCEPT !.displayTime = display.displayTime + delta]
  ELSE display

----------------------------------------------------------------------------
(* Lives and score *)

\* mutant of livesIsGameOver: game over only below zero
livesIsGameOverBelowZero(l) == l.current < 0

livesIsGameOver(l) == l.current <= 0

\* mutant of loseLife: losing the last life refills the lives
loseLifeRefills(l) ==
  IF l.current > 1 THEN [l EXCEPT !.current = l.current - 1]
  ELSE [l EXCEPT !.current = l.max]

\* mutant of loseLife: the decrement is not guarded
loseLifeUnguarded(l) == [l EXCEPT !.current = l.current - 1]

\* mutant of loseLife: the last life is never taken
loseLifeKeepsLast(l) ==
  IF l.current > 1 THEN [l EXCEPT !.current = l.current - 1] ELSE l

\* lives.loseLife: the new lives object (its return value is
\* livesIsGameOver of the result)
loseLife(l) ==
  IF l.current > 0 THEN [l EXCEPT !.current = l.current - 1] ELSE l

livesReset(l) == [l EXCEPT !.current = l.max]

\* mutant of addPoints: the points are added twice
addPointsTwice(s, points) == [s EXCEPT !.current = s.current + 2 * points]

addPoints(s, points) == [s EXCEPT !.current = s.current + points]

\* mutant of scoreReset: the score is left as it is
scoreResetNothing(s) == s

scoreReset(s) == [s EXCEPT !.current = 0]

\* mutant of checkMiss: an obstacle that was hit is marked avoided as well
checkMissOfCollided(obs, l, overlayStart) ==
  IF /\ obs.pixelX + GRID_SIZE * 1000 < overlayStart
     /\ ~obs.hasBeenAvoided
  THEN [obstacle |-> [obs EXCEPT !.hasBeenAvoided = TRUE],
        lives |-> loseLife(l), result |-> TRUE]
  ELSE [obstacle |-> obs, lives |-> l, result |-> FALSE]

\* mutant of checkMiss: an obstacle already marked avoided is charged again
checkMissAgain(obs, l, overlayStart) ==
  IF /\ obs.pixelX + GRID_SIZE * 1000 < overlayStart
     /\ ~obs.hasCollided
  THEN [obstacle |-> [obs EXCEPT !.hasBeenAvoided = TRUE],
        lives |-> loseLife(l), result |-> TRUE]
  ELSE [obstacle |-> obs, lives |-> l, result |-> FALSE]

\* mutant of checkMiss: an obstacle is missed only once it is off the canvas
checkMissOffCanvas(obs, l, overlayStart) ==
  IF /\ obs.pixelX + 2 * GRID_SIZE * 1000 < 0
     /\ ~obs.hasBeenAvoided
     /\ ~obs.hasCollided
  THEN [obstacle |-> [obs EXCEPT !.hasBeenAvoided = TRUE],
        lives |-> loseLife(l), result |-> TRUE]
  ELSE [obstacle |-> obs, lives |-> l, result |-> FALSE]

\* lives.checkMiss: the obstacle and the lives object after the call, and
\* the value returned
checkMiss(obs, l, overlayStart) ==
  IF /\ obs.pixelX + GRID_SIZE * 1000 < overlayStart
     /\ ~obs.hasBeenAvoided
     /\ ~obs.hasCollided
  THEN [obstacle |-> [obs EXCEPT !.hasBeenAvoided = TRUE],
        lives |-> loseLife(l), result |-> TRUE]
  ELSE [obstacle |-> obs, lives |-> l, result |-> FALSE]

----------------------------------------------------------------------------
(* The player *)

getPixelX(p, m) ==
  IF m.isMoving /\ m.nextPixelX # <<>>
  THEN p.pixelX + ((m.nextPixelX[1] - p.pixelX) * m.moveProgress) \div MOVE_SPEED
  ELSE p.pixelX

getPixelY(p, m) ==
  IF m.isMoving /\ m.nextPixelY # <<>>
  THEN p.pixelY + ((m.nextPixelY[1] - p.pixelY) * m.moveProgress) \div MOVE_SPEED
  ELSE p.pixelY

\* player.updateNoteValue
updateNoteValue(p, ui) ==
  IF ui.selectedNote # p.noteValue
  THEN [p EXCEPT !.noteValue = ui.selectedNote]
  ELSE p

----------------------------------------------------------------------------
(* The simulation step *)

\* mutant of getNextImage: the rotation runs backwards
getNextImageBackwards(sp) ==
  [sp EXCEPT !.currentImageIndex =
                (sp.currentImageIndex + MONSTER_IMAGES - 1) % MONSTER_IMAGES]

\* obstacleSpawner.getNextImage: the spawner after the call (the image
\* returned is the index before the call)
getNextImage(sp) ==
  [sp EXCEPT !.currentImageIndex = (sp.currentImageIndex + 1) % MONSTER_IMAGES]

\* mutant of moveObstacle: the speed follows the current difficulty
moveObstacleRescaled(obs, delta) ==
  [obs EXCEPT !.pixelX = obs.pixelX - obs.speed * delta,
              !.speed = getObstacleSpeed(gameState.difficulty),
              !.fadeAnimation = animationUpdate(obs.fadeAnimation, delta,
                                                FADE_DURATION)]

\* mutant of moveObstacle: twenty times the distance
moveObstacleLeaps(obs, delta) ==
  [obs EXCEPT !.pixelX = obs.pixelX - 20 * obs.speed * delta,
              !.fadeAnimation = animationUpdate(obs.fadeAnimation, delta,
                                                FADE_DURATION)]

\* update, lines 836-839: motion and fade of one obstacle
moveObstacle(obs, delta) ==
  [obs EXCEPT !.pixelX = obs.pixelX - obs.speed * delta,
              !.fadeAnimation = animationUpdate(obs.fadeAnimation, delta,
                                                FADE_DURATION)]

\* mutant of missPass: the pass stops once the game is over
RECURSIVE missPassStops(_, _, _, _)
missPassStops(obsSeq, i, l, over) ==
  IF i > Len(obsSeq) \/ over
  THEN [obstacles |-> obsSeq, lives |-> l, isGameOver |-> over]
  ELSE LET r == checkMiss(obsSeq[i], l, overlayStartX)
       IN  IF r.result
           THEN missPassStops([obsSeq EXCEPT ![i] = r.obstacle], i + 1, r.lives,
                              IF livesIsGameOver(r.lives) THEN TRUE ELSE over)
           ELSE missPassStops(obsSeq, i + 1, l, over)

\* update, lines 847-854: the passive-miss pass from obstacle i on
RECURSIVE missPass(_, _, _, _)
missPass(obsSeq, i, l, over) ==
  IF i > Len(obsSeq)
  THEN [obstacles |-> obsSeq, lives |-> l, isGameOver |-> over]
  ELSE LET r == checkMiss(obsSeq[i], l, overlayStartX)
       IN  IF r.result
           THEN missPass([obsSeq EXCEPT ![i] = r.obstacle], i + 1, r.lives,
                         IF livesIsGameOver(r.lives) THEN TRUE ELSE over)
           ELSE missPass(obsSeq, i + 1, l, over)

\* mutant of isRemoved: only an obstacle off the left edge is removed
isRemovedOffScreenOnly(obs) == obs.pixelX + GRID_SIZE * 1000 < 0

\* mutant of isRemoved: an obstacle is removed once it is left of the clef
isRemovedPastClef(obs) ==
  \/ obs.pixelX + GRID_SIZE * 1000 < trebleClef.x
  \/ (obs.fadeAnimation.progress >= FADE_DURATION
      /\ ~obs.fadeAnimation.isAnimating)

\* mutant of isRemoved: no obstacle is ever removed
isRemovedNever(obs) == FALSE

\* mutant of isRemoved: an obstacle is removed while its right edge is still
\* 12 px right of the left edge of the hit window
isRemovedAtWindow(obs) ==
  \/ obs.pixelX + GRID_SIZE * 1000 < overlayStartX + 12000
  \/ (obs.fadeAnimation.progress >= FADE_DURATION
      /\ ~obs.fadeAnimation.isAnimating)

\* update, lines 856-864: the condition under which an obstacle is removed
isRemoved(obs) ==
  \/ obs.pixelX + GRID_SIZE * 1000 < 0
  \/ (obs.fadeAnimation.progress >= FADE_DURATION
      /\ ~obs.fadeAnimation.isAnimating)

keepsObstacle(obs) == ~isRemoved(obs)

cleanup(obsSeq) == SelectSeq(obsSeq, keepsObstacle)

\* update, lines 866-877: movement interpolation; the record holds the
\* movement and the player after the block
updateMovement(m, p, delta) ==
  IF m.isMoving
  THEN IF m.moveProgress + delta >= MOVE_SPEED
       THEN [movement |-> [isMoving |-> FALSE, moveProgress |-> MOVE_SPEED,
                           nextPixelX |-> <<>>, nextPixelY |-> <<>>],
             player |-> [p EXCEPT
                           !.pixelX = IF m.nextPixelX # <<>>
                                      THEN m.nextPixelX[1] ELSE 0,
                           !.pixelY = IF m.nextPixelY # <<>>
                                      THEN m.nextPixelY[1] ELSE 0]]
       ELSE [movement |-> [m EXCEPT !.moveProgress = m.moveProgress + delta],
             player |-> p]
  ELSE [movement |-> m, player |-> p]

\* mutant of isPlayerCollision: the staff lines are not compared
isPlayerCollisionAnyLine(obs, p, m) ==
  Abs(getPixelX(p, m) + (PLAYER_SIZE * 1000) \div 2
      - (obs.pixelX + (GRID_SIZE * 1000) \div 2)) < PLAYER_SIZE * 1000

\* checkPlayerCollisions: the collision test of one obstacle
isPlayerCollision(obs, p, m) ==
  LET dx == Abs(getPixelX(p, m) + (PLAYER_SIZE * 1000) \div 2
                - (obs.pixelX + (GRID_SIZE * 1000) \div 2))
  IN  /\ dx < PLAYER_SIZE * 1000
      /\ toFixed1GridY(getPixelY(p, m)) = toFixed1GridY(obs.pixelY)

\* checkPlayerCollisions from obstacle i on; st holds obstacles, score,
\* noteDisplay, playerAnimation and hitZoneFlash
RECURSIVE checkPlayerCollisions(_, _, _, _)
checkPlayerCollisions(st, i, p, m) ==
  IF i > Len(st.obstacles)
  THEN st
  ELSE LET obs == st.obstacles[i]
       IN  IF isPlayerCollision(obs, p, m) /\ ~obs.hasCollided
           THEN checkPlayerCollisions(
                  [obstacles |->
                     [st.obstacles EXCEPT
                        ![i] = [obs EXCEPT
                                  !.hasCollided = TRUE,
                                  !.fadeAnimation =
                                     animationStart(obs.fadeAnimation)]],
                   score |-> addPoints(st.score, COLLISION_POINTS_GAINED),
                   noteDisplay |-> noteDisplayShow(st.noteDisplay, obs.pixelY),
                   playerAnimation |-> animationStart(st.playerAnimation),
                   hitZoneFlash |-> hitZoneFlashStart(st.hitZoneFlash, "green")],
                  i + 1, p, m)
           ELSE checkPlayerCollisions(st, i + 1, p, m)

\* update(delta) on a canvas whose play area is gameWidth px wide;
\* randomIndex is Math.floor(Math.random() * STAFF_POSITIONS)
updateOn(gameWidth, delta, randomIndex) ==
  LET gs1 == IF gameState.hasStarted /\ ~gameState.isGameOver
             THEN [gameState EXCEPT
                     !.elapsedTime = gameState.elapsedTime + delta,
                     !.difficulty =
                        calculateDifficulty(gameState.elapsedTime + delta)]
             ELSE gameState
      since == obstacleSpawner.timeSinceLastSpawn + delta
      currentSpawnInterval == getSpawnInterval(gs1.difficulty)
      spawns == since >= currentSpawnInterval
      sp1 == IF spawns
             THEN getNextImage([obstacleSpawner EXCEPT !.timeSinceLastSpawn = 0])
             ELSE [obstacleSpawner EXCEPT !.timeSinceLastSpawn = since]
      randomGridY == 50 + randomIndex * 5
      newObstacle == obstacleGenerator(gameWidth * 1000,
                                       (randomGridY * GRID_SIZE * 1000) \div 10,
                                       obstacleSpawner.currentImageIndex,
                                       getObstacleSpeed(gs1.difficulty))
      obs1 == IF spawns THEN Append(obstacles, newObstacle) ELSE obstacles
      obs2 == [i \in DOMAIN obs1 |-> moveObstacle(obs1[i], delta)]
      miss == missPass(obs2, 1, lives, gs1.isGameOver)
      obs3 == cleanup(miss.obstacles)
      mv == updateMovement(movement, player, delta)
      col == checkPlayerCollisions(
               [obstacles |-> obs3, score |-> score,
                noteDisplay |-> noteDisplay,
                playerAnimation |-> playerAnimation,
                hitZoneFlash |-> hitZoneFlash], 1, mv.player, mv.movement)
  IN  /\ gameState' = [gs1 EXCEPT !.isGameOver = miss.isGameOver]
      /\ lives' = miss.lives
      /\ obstacleSpawner' = sp1
      /\ obstacles' = col.obstacles
      /\ score' = col.score
      /\ movement' = mv.movement
      /\ player' = mv.player
      /\ playerAnimation' = animationUpdate(col.playerAnimation, delta,
                                            PLAYER_ANIMATION_DURATION)
      /\ noteDisplay' = noteDisplayUpdate(col.noteDisplay, delta)
      /\ hitZoneFlash' = hitZoneFlashUpdate(col.hitZoneFlash, delta)
      /\ UNCHANGED uiState

\* update(delta) on the canvas of the model
update(delta, randomIndex) == updateOn(GameWidth, delta, randomIndex)

\* mutant of simulationRuns: the simulation step is invoked in every frame
simulationRunsAlways == TRUE

\* loop, line 1228: the simulation step is invoked in this frame
simulationRuns == gameState.hasStarted /\ ~gameState.isGameOver

\* mutant of loop: the simulation step is run with the raw delta
loopUncapped(rawDelta, randomIndex) ==
  IF simulationRuns
  THEN /\ gameState.elapsedTime + rawDelta <= MaxSteps * DELTA_CAP + 1000
       /\ update(rawDelta, randomIndex)
  ELSE UNCHANGED vars

\* loop(timestamp); rawDelta is timestamp - lastTime
loop(rawDelta, randomIndex) ==
  LET cappedDelta == Min(rawDelta, DELTA_CAP)
  IN  /\ IF simulationRuns
         THEN /\ gameState.elapsedTime + cappedDelta <= MaxSteps * DELTA_CAP
              /\ update(cappedDelta, randomIndex)
         ELSE UNCHANGED vars

----------------------------------------------------------------------------
(* Input handlers *)

\* handleNoteKeyPress: whether the obstacle's centre is inside the overlay
isWithinOverlay(obs, noteValue) ==
  LET obsCenter == obs.pixelX + (GRID_SIZE * 1000) \div 2
  IN  obsCenter >= overlayStartX /\ obsCenter <= overlayEndX(noteValue)

\* mutant of yMatch: only the first staff line of the letter is compared
yMatchFirstLine(gridYs, obs) ==
  Abs(gridYs[1] - toFixed1GridY(obs.pixelY)) < 1

\* handleNoteKeyPress / handleKeyDown: whether one of the pressed staff
\* lines is within 0.1 of the obstacle's staff line
yMatch(gridYs, obs) ==
  \E n \in DOMAIN gridYs : Abs(gridYs[n] - toFixed1GridY(obs.pixelY)) < 1

\* handleNoteKeyPress, line 1256: the obstacle counts as present to be hit
isPresent(obs, noteValue) ==
  isWithinOverlay(obs, noteValue) /\ ~obs.hasCollided /\ ~obs.hasBeenAvoided

\* mutant of isHit: an obstacle already collided is hit again
isHitAgain(gridYs, obs, noteValue) ==
  yMatch(gridYs, obs) /\ isWithinOverlay(obs, noteValue)

\* handleNoteKeyPress, line 1263: the obstacle is hit by the pressed key
isHit(gridYs, obs, noteValue) ==
  yMatch(gridYs, obs) /\ isWithinOverlay(obs, noteValue) /\ ~obs.hasCollided

\* handleNoteKeyPress, lines 1251-1273: the scan from obstacle i on; st
\* holds obstacles, score, noteDisplay, playerAnimation and the two flags
RECURSIVE noteKeyScan(_, _, _, _)
noteKeyScan(st, i, gridYs, noteValue) ==
  IF i > Len(st.obstacles)
  THEN st
  ELSE LET obs == st.obstacles[i]
           st1 == [st EXCEPT
                     !.hasObstacleInOverlay =
                        IF isPresent(obs, noteValue) THEN TRUE ELSE @]
       IN  IF isHit(gridYs, obs, noteValue)
           THEN noteKeyScan(
                  [st1 EXCEPT
                     !.obstacles[i] =
                        [obs EXCEPT !.hasCollided = TRUE,
                                    !.fadeAnimation =
                                       animationStart(obs.fadeAnimation)],
                     !.hitCorrectNote = TRUE,
                     !.score = addPoints(st.score, COLLISION_POINTS_GAINED),
                     !.noteDisplay = noteDisplayShow(st.noteDisplay, obs.pixelY),
                     !.playerAnimation = animationStart(st.playerAnimation)],
                  i + 1, gridYs, noteValue)
           ELSE noteKeyScan(st1, i + 1, gridYs, noteValue)

\* mutant of handleNoteKeyPress: a life is lost whenever an obstacle that
\* the pressed letter does not match is in the hit window
handleNoteKeyPressStrict(gridYs, gs) ==
  LET scan == noteKeyScan(
                [obstacles |-> obstacles, score |-> score,
                 noteDisplay |-> noteDisplay,
                 playerAnimation |-> playerAnimation,
                 hitCorrectNote |-> FALSE, hasObstacleInOverlay |-> FALSE],
                1, gridYs, player.noteValue)
      wrongKey == \E i \in DOMAIN obstacles :
                    /\ isPresent(obstacles[i], player.noteValue)
                    /\ ~yMatch(gridYs, obstacles[i])
      lives1 == IF wrongKey THEN loseLife(lives) ELSE lives
  IN  /\ obstacles' = scan.obstacles
      /\ score' = scan.score
      /\ noteDisplay' = scan.noteDisplay
      /\ playerAnimation' = scan.playerAnimation
      /\ lives' = lives1
      /\ hitZoneFlash' = IF wrongKey
                         THEN hitZoneFlashStart(hitZoneFlash, "red")
                         ELSE hitZoneFlash
      /\ gameState' = IF wrongKey /\ livesIsGameOver(lives1)
                      THEN [gs EXCEPT !.isGameOver = TRUE]
                      ELSE gs

\* handleNoteKeyPress(gridYArray), given the game state gs the caller has
\* built so far
handleNoteKeyPress(gridYs, gs) ==
  LET scan == noteKeyScan(
                [obstacles |-> obstacles, score |-> score,
                 noteDisplay |-> noteDisplay,
                 playerAnimation |-> playerAnimation,
                 hitCorrectNote |-> FALSE, hasObstacleInOverlay |-> FALSE],
                1, gridYs, player.noteValue)
      wrongKey == scan.hasObstacleInOverlay /\ ~scan.hitCorrectNote
      lives1 == IF wrongKey THEN loseLife(lives) ELSE lives
  IN  /\ obstacles' = scan.obstacles
      /\ score' = scan.score
      /\ noteDisplay' = scan.noteDisplay
      /\ playerAnimation' = scan.playerAnimation
      /\ lives' = lives1
      /\ hitZoneFlash' = IF wrongKey
                         THEN hitZoneFlashStart(hitZoneFlash, "red")
                         ELSE hitZoneFlash
      /\ gameState' = IF wrongKey /\ livesIsGameOver(lives1)
                      THEN [gs EXCEPT !.isGameOver = TRUE]
                      ELSE gs

\* restartGame
restartGame ==
  /\ lives' = livesReset(lives)
  /\ score' = scoreReset(score)
  /\ gameState' = [gameState EXCEPT !.isGameOver = FALSE,
                                    !.hasStarted = TRUE,
                                    !.elapsedTime = 0,
                                    !.difficulty = 1]
  /\ obstacles' = <<>>
  /\ player' = [player EXCEPT
                  !.pixelX = PLAYER_INITIAL_GRID_X * GRID_SIZE * 1000,
                  !.pixelY = PLAYER_INITIAL_GRID_Y * GRID_SIZE * 1000]
  /\ movement' = [isMoving |-> FALSE, moveProgress |-> 0,
                  nextPixelX |-> <<>>, nextPixelY |-> <<>>]
  /\ playerAnimation' = [playerAnimation EXCEPT !.isAnimating = FALSE,
                                                !.progress = 0]
  /\ noteDisplay' = [noteDisplay EXCEPT !.noteName = <<>>,
                                        !.displayTime = 0]
  /\ obstacleSpawner' = [obstacleSpawner EXCEPT !.timeSinceLastSpawn = 0]
  /\ UNCHANGED <<hitZoneFlash, uiState>>

\* handleKeyDown, lines 1370-1382: the staff line shown for the pressed key
\* (the matching obstacle furthest to the right, the first of them on a tie)
RECURSIVE closestObstacle(_, _, _)
closestObstacle(atNote, i, closest) ==
  IF i > Len(atNote)
  THEN closest
  ELSE closestObstacle(atNote, i + 1,
                       IF atNote[i].pixelX > closest.pixelX
                       THEN atNote[i] ELSE closest)

targetGridY(gridYArray) ==
  LET matches(obs) == yMatch(gridYArray, obs)
      obstaclesAtNote == SelectSeq(obstacles, matches)
  IN  IF Len(obstaclesAtNote) > 0
      THEN (closestObstacle(obstaclesAtNote, 2, obstaclesAtNote[1]).pixelY * 10)
             \div (GRID_SIZE * 1000)
      ELSE gridYArray[1]

\* mutant of isRestartKey: the restart key is honoured in every state
isRestartKeyAnyState(key) == toLowerCase(key) = "r"

\* handleKeyDown, line 1348: the key restarts the game
isRestartKey(key) == toLowerCase(key) = "r" /\ gameState.isGameOver

\* handleKeyDown(e), with key = e.key
handleKeyDown(key) ==
  IF isRestartKey(key)
  THEN restartGame
  ELSE IF ~gameState.isGameOver /\ toLowerCase(key) \in DOMAIN NOTE_KEY_MAP
       THEN LET noteGridYValues == NOTE_KEY_MAP[toLowerCase(key)]
            IN  /\ handleNoteKeyPress(
                     noteGridYValues,
                     [gameState EXCEPT
                        !.isNoteKeyPressed = TRUE,
                        !.currentNoteGridY =
                           <<targetGridY(noteGridYValues)>>])
                /\ UNCHANGED <<obstacleSpawner, player, movement, uiState>>
       ELSE UNCHANGED vars

\* handleKeyUp(e), with key = e.key
handleKeyUp(key) ==
  /\ IF ~gameState.isGameOver /\ toLowerCase(key) \in DOMAIN NOTE_KEY_MAP
     THEN gameState' = [gameState EXCEPT !.isNoteKeyPressed = FALSE,
                                         !.currentNoteGridY = <<>>]
     ELSE UNCHANGED gameState
  /\ UNCHANGED <<lives, score, obstacles, obstacleSpawner, player, movement,
                 playerAnimation, noteDisplay, hitZoneFlash, uiState>>

\* handleCanvasClick(e), with target the place the click lands on
handleCanvasClick(target) ==
  /\ IF ~gameState.hasStarted
     THEN /\ gameState' = IF target = "start"
                          THEN [gameState EXCEPT !.hasStarted = TRUE]
                          ELSE gameState
          /\ UNCHANGED <<uiState, player>>
     ELSE /\ uiState' = IF target \in NOTE_VALUES
                        THEN [uiState EXCEPT !.selectedNote = target]
                        ELSE uiState
          /\ player' = IF target \in NOTE_VALUES
                       THEN updateNoteValue(
                              player, [uiState EXCEPT !.selectedNote = target])
                       ELSE player
          /\ UNCHANGED gameState
  /\ UNCHANGED <<lives, score, obstacles, obstacleSpawner, movement,
                 playerAnimation, noteDisplay, hitZoneFlash>>

----------------------------------------------------------------------------
(* The specification *)

Init ==
  /\ gameState = [hasStarted |-> FALSE, isGameOver |-> FALSE,
                  isNoteKeyPressed |-> FALSE, currentNoteGridY |-> <<>>,
                  elapsedTime |-> 0, difficulty |-> 1]
  /\ lives = [current |-> MAX_LIVES, max |-> MAX_LIVES]
  /\ score = [current |-> 0]
  /\ obstacles = <<>>
  /\ obstacleSpawner = [timeSinceLastSpawn |-> 0, currentImageIndex |-> 0]
  /\ uiState = [selectedNote |-> "half"]
  /\ player = [pixelX |-> PLAYER_INITIAL_GRID_X * GRID_SIZE * 1000,
               pixelY |-> PLAYER_INITIAL_GRID_Y * GRID_SIZE * 1000,
               noteValue |-> "half"]
  /\ movement = [isMoving |-> FALSE, moveProgress |-> 0,
                 nextPixelX |-> <<>>, nextPixelY |-> <<>>]
  /\ playerAnimation = [isAnimating |-> FALSE, progress |-> 0]
  /\ noteDisplay = [noteName |-> <<>>, displayTime |-> 0]
  /\ hitZoneFlash = [isFlashing |-> FALSE, color |-> "green", progress |-> 0]
  /\ heldNoteKeys = {}

\* Math.random() is drawn only in a step that spawns an obstacle
randomIndices(rawDelta) ==
  LET delta == Min(rawDelta, DELTA_CAP)
  IN  IF /\ gameState.hasStarted /\ ~gameState.isGameOver
         /\ obstacleSpawner.timeSinceLastSpawn + delta
              >= getSpawnInterval(
                   calculateDifficulty(gameState.elapsedTime + delta))
      THEN 0..(STAFF_POSITIONS - 1)
      ELSE {0}

Frame == /\ \E rawDelta \in RawDeltas :
              \E randomIndex \in randomIndices(rawDelta) :
                loop(rawDelta, randomIndex)
         /\ UNCHANGED heldNoteKeys

\* the key is a note letter
isNoteKey(key) == toLowerCase(key) \in DOMAIN NOTE_KEY_MAP

\* a keydown event: the key goes down, or repeats when it is down already
KeyDown == \E key \in Keys :
             /\ handleKeyDown(key)
             /\ heldNoteKeys' = IF isNoteKey(key)
                                THEN heldNoteKeys \cup {key} ELSE heldNoteKeys

\* a keyup event: the key goes up
KeyUp == \E key \in Keys :
           /\ handleKeyUp(key)
           /\ heldNoteKeys' = heldNoteKeys \ {key}

Click == /\ \E target \in ClickTargets : handleCanvasClick(target)
         /\ UNCHANGED heldNoteKeys

Next == Frame \/ KeyDown \/ KeyUp \/ Click

Spec == Init /\ [][Next]_allVars

----------------------------------------------------------------------------
(* Vocabulary of the properties *)

NotStarted == ~gameState.hasStarted
Playing == gameState.hasStarted /\ ~gameState.isGameOver
GameOver == gameState.hasStarted /\ gameState.isGameOver

\* the keys of the model that are note letters
NoteKeys == {key \in Keys : toLowerCase(key) \in DOMAIN NOTE_KEY_MAP}

\* the keys of the model that request a restart
RestartKeys == {key \in Keys : toLowerCase(key) = "r"}

NoteKeyDownStep == \E key \in NoteKeys : handleKeyDown(key)
NoteKeyUpStep == \E key \in NoteKeys : handleKeyUp(key)
RestartRequestStep == \E key \in RestartKeys : handleKeyDown(key)
StartClickStep == handleCanvasClick("start")

\* what the simulation owns: score, lives, pool, clock, difficulty, spawner
simulationState == <<score, lives, obstacles, gameState.elapsedTime,
                     gameState.difficulty, obstacleSpawner.timeSinceLastSpawn>>

\* the staff line of an obstacle, in tenths of a grid cell
lineOf(obs) == (obs.pixelY * 10) \div (GRID_SIZE * 1000)

\* the staff lines the letter table gives the key
keyLines(key) ==
  LET lines == NOTE_KEY_MAP[toLowerCase(key)]
  IN  {lines[n] : n \in DOMAIN lines}

\* the obstacle's centre is inside the hit window of the selected note value
\* (both ends included, as handleNoteKeyPress tests it)
centerInWindow(obs) ==
  LET center == obs.pixelX + 16000
  IN  center >= 128000 /\ center <= 128000 + overlayWidth(player.noteValue)

unresolved(obs) == ~obs.hasCollided /\ ~obs.hasBeenAvoided

\* a frame in which the simulation step ran
UpdateStep == Playing /\ gameState'.elapsedTime > gameState.elapsedTime /\ Frame

----------------------------------------------------------------------------
(* Properties *)

\* C1: in every reachable state 0 <= lives.current <= lives.max = 5, and
\* loseLife() applied to the lives of that state lowers current by exactly 1
\* when it is positive, leaves it at 0 when it is 0, and reports game over
\* exactly when the resulting current is 0.
C1_LivesRange ==
  /\ lives.max = 5
  /\ 0 <= lives.current /\ lives.current <= lives.max
  /\ LET after == loseLife(lives)
     IN  /\ lives.current > 0 => after.current = lives.current - 1
         /\ lives.current = 0 => after.current = 0
         /\ after.max = lives.max
         /\ livesIsGameOver(after) <=> after.current = 0

\* C1 witness: all five lives have been lost one by one
C1_Witness == lives.current = 0 /\ lives.max = 5

\* C2: after every frame step and every input handler, isGameOver holds
\* exactly when no life is left.
C2_GameOverIffNoLives == gameState.isGameOver <=> lives.current = 0

\* C2 witness: the last life was lost and the game is over, with an obstacle
\* the passive-miss pass marked in the pool
C2_Witness ==
  /\ gameState.isGameOver
  /\ lives.current = 0
  /\ \E i \in DOMAIN obstacles : obstacles[i].hasBeenAvoided

\* C3: hasStarted never returns to false, NotStarted is never combined with
\* isGameOver, the game state changes only NotStarted -> Playing by a click on
\* the start button, Playing -> GameOver with the lives at 0 and
\* GameOver -> Playing by the restart key, and a restart request outside
\* GameOver changes nothing.
C3_StateMachine ==
  [][ /\ gameState.hasStarted => gameState'.hasStarted
      /\ ~(~gameState'.hasStarted /\ gameState'.isGameOver)
      /\ (NotStarted /\ ~NotStarted') => (Playing' /\ StartClickStep)
      /\ (Playing /\ ~Playing') => (GameOver' /\ lives'.current = 0)
      /\ (GameOver /\ ~GameOver') => (Playing' /\ RestartRequestStep)
      /\ (RestartRequestStep /\ ~GameOver) => UNCHANGED vars
    ]_vars

\* C3 witness: a game that was started, lost and restarted twice is Playing
C3_Witness ==
  /\ Playing
  /\ obstacleSpawner.currentImageIndex = 2
  /\ gameState.elapsedTime = 0

\* C4: while the game is NotStarted or GameOver, a frame callback and a
\* note-key event change nothing the simulation owns.
C4_FrozenOutsidePlaying ==
  [][ (~Playing /\ (Frame \/ NoteKeyDownStep \/ NoteKeyUpStep))
        => UNCHANGED simulationState ]_vars

\* C4 witness: a note key is held before the start click, and nothing was
\* scored or lost
C4_Witness ==
  /\ NotStarted
  /\ gameState.isNoteKeyPressed
  /\ score.current = 0
  /\ lives.current = lives.max

\* C5: a restart from GameOver leaves full lives, score 0, an empty pool, the
\* player at its initial position with no movement in progress, the clock at
\* 0, difficulty 1, the spawner accumulator at 0 and the game Playing.
C5_RestartResets ==
  [][ (GameOver /\ RestartRequestStep) =>
        /\ lives'.current = lives'.max
        /\ lives'.max = MAX_LIVES
        /\ score'.current = 0
        /\ obstacles' = <<>>
        /\ player'.pixelX = PLAYER_INITIAL_GRID_X * GRID_SIZE * 1000
        /\ player'.pixelY = PLAYER_INITIAL_GRID_Y * GRID_SIZE * 1000
        /\ ~movement'.isMoving
        /\ gameState'.elapsedTime = 0
        /\ gameState'.difficulty = 1
        /\ obstacleSpawner'.timeSinceLastSpawn = 0
        /\ Playing'
    ]_vars

\* C5 witness: the state right after a restart of a game in which an obstacle
\* had been spawned
C5_Witness ==
  /\ Playing
  /\ gameState.elapsedTime = 0
  /\ obstacleSpawner.currentImageIndex = 1
  /\ obstacleSpawner.timeSinceLastSpawn = 0
  /\ lives.current = lives.max
  /\ score.current = 0
  /\ obstacles = <<>>

\* C6 (as claimed): right after a restart from GameOver the player-hit
\* animation is not animating, the hit-zone flash is not flashing and no note
\* name is displayed.
C6_RestartStopsAnimations ==
  [][ (GameOver /\ RestartRequestStep) =>
        /\ ~playerAnimation'.isAnimating
        /\ ~hitZoneFlash'.isFlashing
        /\ noteDisplay'.noteName = <<>>
    ]_vars

\* C7: in Playing, when exactly one obstacle that is not yet collided has its
\* centre inside the hit window and a key whose letter maps to its staff line
\* is pressed, score rises by exactly 100, the obstacle becomes collided, its
\* fade animation starts at progress 0, and the lives are unchanged.
C7_SingleHit ==
  [][ \A key \in NoteKeys :
        LET targets == {i \in DOMAIN obstacles :
                          /\ ~obstacles[i].hasCollided
                          /\ centerInWindow(obstacles[i])}
        IN  ( /\ Playing
              /\ Cardinality(targets) = 1
              /\ \A i \in targets : lineOf(obstacles[i]) \in keyLines(key)
              /\ handleKeyDown(key) )
            => \A i \in targets :
                 /\ score'.current = score.current + 100
                 /\ obstacles'[i].hasCollided
                 /\ obstacles'[i].fadeAnimation.isAnimating
                 /\ obstacles'[i].fadeAnimation.progress = 0
                 /\ lives' = lives
    ]_vars

\* C7 witness: the first hit of a session, before the next frame
C7_Witness ==
  /\ Playing
  /\ score.current = 100
  /\ lives.current = lives.max
  /\ \E i \in DOMAIN obstacles :
       /\ obstacles[i].hasCollided
       /\ obstacles[i].fadeAnimation.isAnimating
       /\ obstacles[i].fadeAnimation.progress = 0
       /\ lineOf(obstacles[i]) = 90

\* C8: a note key pressed while no unresolved obstacle has its centre inside
\* the hit window changes neither score, lives, game state nor any obstacle.
C8_NoTargetNoOp ==
  [][ \A key \in NoteKeys :
        ( /\ ~\E i \in DOMAIN obstacles :
                unresolved(obstacles[i]) /\ centerInWindow(obstacles[i])
          /\ handleKeyDown(key) )
        => /\ UNCHANGED <<score, lives, obstacles>>
           /\ gameState'.hasStarted = gameState.hasStarted
           /\ gameState'.isGameOver = gameState.isGameOver
    ]_vars

\* C8 witness: the key of an obstacle's own staff line is held while that
\* obstacle, already left of the window, is still unresolved, and nothing
\* was scored or lost
C8_Witness ==
  /\ Playing
  /\ gameState.isNoteKeyPressed
  /\ gameState.currentNoteGridY = <<90>>
  /\ score.current = 0
  /\ lives.current = lives.max
  /\ Len(obstacles) = 1
  /\ lineOf(obstacles[1]) = 90
  /\ unresolved(obstacles[1])
  /\ ~centerInWindow(obstacles[1])

C10_PassiveMissOnce ==
  [][ UpdateStep =>
        LET delta == gameState'.elapsedTime - gameState.elapsedTime
            movedX(i) == obstacles[i].pixelX - obstacles[i].speed * delta
            crossing == {i \in DOMAIN obstacles :
                           /\ unresolved(obstacles[i])
                           /\ movedX(i) + 32000 < 128000}
            same(i, j) == /\ obstacles'[j].pixelX = movedX(i)
                          /\ obstacles'[j].pixelY = obstacles[i].pixelY
                          /\ obstacles'[j].speed = obstacles[i].speed
        IN  /\ \A i \in crossing :
                 \E j \in DOMAIN obstacles' :
                   /\ same(i, j)
                   /\ obstacles'[j].hasBeenAvoided
                   /\ ~obstacles'[j].hasCollided
            /\ \A i \in DOMAIN obstacles \ crossing :
                 \A j \in DOMAIN obstacles' :
                   same(i, j) => obstacles'[j].hasBeenAvoided
                                   = obstacles[i].hasBeenAvoided
            /\ Cardinality(crossing) = 0 => lives' = lives
            /\ Cardinality(crossing) = 1 => lives'.current = lives.current - 1
    ]_vars

\* C10 witness: one life was lost to an obstacle that scrolled past
\* overlayStart, and the hit-zone flash (started by a wrong key only) never ran
C10_Witness ==
  /\ Playing
  /\ lives.current = lives.max - 1
  /\ hitZoneFlash.progress = 0
  /\ ~hitZoneFlash.isFlashing
  /\ \E i \in DOMAIN obstacles :
       /\ obstacles[i].hasBeenAvoided
       /\ obstacles[i].pixelX + 32000 < 128000

----------------------------------------------------------------------------
(* Key repeat, letter table, difficulty *)

\* a keydown event of a note key that is down already (no keyup in between)
RepeatKeyDownStep == \E key \in heldNoteKeys : handleKeyDown(key)

\* C11: while a note key is held, a repeated key-down event of that key
\* does not run hit/miss resolution again: it awards no points and costs no
\* life.
C11_HeldKeyFiresOnce ==
  [][ RepeatKeyDownStep => score' = score /\ lives' = lives ]_vars

\* The letter keys, one at a time: a session in which the player taps the
\* seven note letters (a key goes down only when no note key is down) while
\* frames of the capped length pass.
LetterKeys == {"c", "d", "e", "f", "g", "a", "b"}

StartClick == StartClickStep /\ UNCHANGED heldNoteKeys

SteadyFrame == /\ \E randomIndex \in randomIndices(DELTA_CAP) :
                    loop(DELTA_CAP, randomIndex)
               /\ UNCHANGED heldNoteKeys

LetterKeyDown == \E key \in LetterKeys :
                   /\ heldNoteKeys = {}
                   /\ handleKeyDown(key)
                   /\ heldNoteKeys' = {key}

LetterKeyUp == \E key \in heldNoteKeys :
                 /\ handleKeyUp(key)
                 /\ heldNoteKeys' = {}

NextLetters == StartClick \/ SteadyFrame \/ LetterKeyDown \/ LetterKeyUp

SpecLetters == Init /\ [][NextLetters]_allVars

\* C12: a key press for letter L marks an in-window uncollided obstacle as
\* hit if and only if the obstacle's staff line is one of the lines of L in
\* the table c:6.5, d:6.0, e:5.5 or 9.0, f:5.0 or 8.5, g:8.0, a:7.5, b:7.0.
C12_LetterTable ==
  [][ \A key \in LetterKeys :
        LET table == CASE key = "c" -> {65}
                       [] key = "d" -> {60}
                       [] key = "e" -> {55, 90}
                       [] key = "f" -> {50, 85}
                       [] key = "g" -> {80}
                       [] key = "a" -> {75}
                       [] key = "b" -> {70}
        IN  Playing /\ handleKeyDown(key) =>
              \A i \in DOMAIN obstacles :
                centerInWindow(obstacles[i]) /\ ~obstacles[i].hasCollided =>
                  (obstacles'[i].hasCollided <=> lineOf(obstacles[i]) \in table)
    ]_vars

\* "e" has just hit an obstacle on line 9.0, the second line of the letter
C12_Witness ==
  /\ Playing
  /\ heldNoteKeys = {"e"}
  /\ gameState.currentNoteGridY = <<90>>
  /\ \E i \in DOMAIN obstacles :
       /\ lineOf(obstacles[i]) = 90
       /\ obstacles[i].hasCollided
       /\ obstacles[i].fadeAnimation.isAnimating
       /\ obstacles[i].fadeAnimation.progress = 0
       /\ centerInWindow(obstacles[i])

----------------------------------------------------------------------------
(* Long sessions: frames of the capped length; obstacles on the two lines  *)
(* of the letter e; a player who hits every obstacle at once during the    *)
(* first PerfectSteps frames of a session and plays freely afterwards,     *)
(* with the keys e, c and R.                                               *)

LongStaffIndices == {1, 8}

LongKeys == {"e", "c", "R"}

\* the session is in its first perfectSteps frames
playsPerfectly(perfectSteps) ==
  gameState.elapsedTime < perfectSteps * DELTA_CAP

\* a frame of a session of at most maxSteps frames
sessionFrameOn(gameWidth, staffIndices, perfectSteps, maxSteps) ==
  /\ simulationRuns
  /\ gameState.elapsedTime + DELTA_CAP <= maxSteps * DELTA_CAP
  /\ playsPerfectly(perfectSteps) =>
        \A i \in DOMAIN obstacles : ~isPresent(obstacles[i], player.noteValue)
  /\ \E randomIndex \in (IF randomIndices(DELTA_CAP) = {0}
                          THEN {0} ELSE staffIndices) :
        updateOn(gameWidth, DELTA_CAP, randomIndex)
  /\ UNCHANGED heldNoteKeys

sessionFrame(perfectSteps, maxSteps) ==
  sessionFrameOn(GameWidth, LongStaffIndices, perfectSteps, maxSteps)

sessionKeyDown(perfectSteps, keys) ==
  \E key \in keys :
    /\ playsPerfectly(perfectSteps) => key = "e"
    /\ handleKeyDown(key)
    /\ heldNoteKeys' = IF isNoteKey(key)
                       THEN heldNoteKeys \cup {key} ELSE heldNoteKeys

sessionKeyUp(keys) ==
  \E key \in keys :
    /\ handleKeyUp(key)
    /\ heldNoteKeys' = heldNoteKeys \ {key}

LongFrame == sessionFrame(PerfectSteps, MaxLongSteps)

LongKeyDown == sessionKeyDown(PerfectSteps, LongKeys)

LongKeyUp == sessionKeyUp(LongKeys)

\* a frame of a long session in which the simulation step ran
UpdateStepLong == Playing /\ LongFrame

NextLong == StartClick \/ LongFrame \/ LongKeyDown \/ LongKeyUp

SpecLong == Init /\ [][NextLong]_allVars

\* C13: in every reachable state the difficulty is
\* min(5, floor(elapsedTime / 30 s) + 1), hence between 1 and 5; a step
\* never lowers it unless it is the restart, which returns it to 1.
C13_Difficulty ==
  /\ [](LET level == gameState.elapsedTime \div 30000 + 1
        IN  /\ gameState.difficulty = IF level < 5 THEN level ELSE 5
            /\ gameState.difficulty >= 1
            /\ gameState.difficulty <= 5)
  /\ [][ /\ UpdateStepLong => gameState'.difficulty >= gameState.difficulty
         /\ gameState'.difficulty < gameState.difficulty =>
              RestartRequestStep /\ gameState'.difficulty = 1 ]_vars

\* the session has lasted 150 s, where the cap holds the level at 5
C13_Witness ==
  /\ gameState.difficulty = 5
  /\ gameState.elapsedTime >= 150000

\* C14: the spawn interval is at least 0.8 s at every level, and over the
\* levels 1..5 it is 2.0, 1.8, 1.6, 1.4, 1.2 s, strictly decreasing.
C14_SpawnInterval ==
  /\ \A level \in 1..MaxLevel : getSpawnInterval(level) >= 800
  /\ \A level \in 1..5 : getSpawnInterval(level) = 2000 - 200 * (level - 1)
  /\ \A level \in 1..4 : getSpawnInterval(level + 1) < getSpawnInterval(level)
  /\ getSpawnInterval(gameState.difficulty) >= 1200
  /\ getSpawnInterval(gameState.difficulty) <= 2000

\* at level 5 an obstacle has just been spawned, and not the first one of
\* that level: the timer that has just expired ran for the level's 1.2 s
C14_Witness ==
  /\ Playing
  /\ gameState.difficulty = 5
  /\ gameState.elapsedTime >= 120000 + 2 * 1200
  /\ obstacleSpawner.timeSinceLastSpawn = 0
  /\ \E i \in DOMAIN obstacles :
       obstacles[i].pixelX = GameWidth * 1000 - obstacles[i].speed * DELTA_CAP

----------------------------------------------------------------------------
(* Sessions in which the level rises while an obstacle is in the pool: the *)
(* player, with the key e, hits every obstacle at once during the first    *)
(* RisePerfectSteps frames and plays freely afterwards.                    *)

RiseKeys == {"e"}

RiseFrame == sessionFrame(RisePerfectSteps, MaxRiseSteps)

RiseKeyDown == sessionKeyDown(RisePerfectSteps, RiseKeys)

RiseKeyUp == sessionKeyUp(RiseKeys)

\* a click on the icon of a note value in the sidebar
RiseClick == /\ \E target \in NOTE_VALUES : handleCanvasClick(target)
             /\ UNCHANGED heldNoteKeys

NextRise == StartClick \/ RiseFrame \/ RiseKeyDown \/ RiseKeyUp \/ RiseClick

SpecRise == Init /\ [][NextRise]_allVars

\* a frame step that spawned an obstacle: only a spawn resets the timer
SpawnStepRise == Playing /\ RiseFrame /\ obstacleSpawner'.timeSinceLastSpawn = 0

\* C15: an obstacle is created with speed 150 + 30 * (difficulty of its
\* spawn step - 1), and no step changes the speed of an obstacle of the
\* pool, also when the difficulty rises while the obstacle is in the pool.
C15_SpeedFrozen ==
  [][ /\ SpawnStepRise =>
           obstacles'[Len(obstacles')].speed =
              150 + 30 * (gameState'.difficulty - 1)
      /\ Playing /\ RiseFrame =>
           \A j \in 1..(Len(obstacles')
                          - (IF obstacleSpawner'.timeSinceLastSpawn = 0
                             THEN 1 ELSE 0)) :
             \E i \in DOMAIN obstacles :
               /\ obstacles'[j].pixelY = obstacles[i].pixelY
               /\ obstacles'[j].imagePath = obstacles[i].imagePath
               /\ obstacles'[j].pixelX =
                     obstacles[i].pixelX - obstacles[i].speed * DELTA_CAP
               /\ obstacles'[j].speed = obstacles[i].speed
      /\ ~RiseFrame /\ obstacles' # <<>> =>
           /\ Len(obstacles') = Len(obstacles)
           /\ \A i \in DOMAIN obstacles :
                obstacles'[i].speed = obstacles[i].speed
    ]_vars

\* an obstacle spawned at level 3 is in the pool at level 4
C15_Witness ==
  /\ gameState.difficulty = 4
  /\ \E i \in DOMAIN obstacles : obstacles[i].speed = 210

\* C16: the hit window starts at x = 128 and is 400, 200, 100, 50, 25 px
\* wide for whole, half, quarter, eighth, sixteenth; these widths hold at
\* every difficulty, and a key press decides by this window of the selected
\* note value whatever the difficulty and the speed of the obstacle: a
\* matching uncollided obstacle with its centre inside is hit, one with its
\* centre outside is not.
C16_HitWindow ==
  /\ [](/\ overlayStartX = 128000
        /\ overlayWidth("whole") = 400000
        /\ overlayWidth("half") = 200000
        /\ overlayWidth("quarter") = 100000
        /\ overlayWidth("eighth") = 50000
        /\ overlayWidth("sixteenth") = 25000
        /\ \A a, b \in NOTE_VALUES :
             getNoteDuration(a) < getNoteDuration(b) =>
               overlayWidth(a) < overlayWidth(b))
  /\ [][ Playing /\ RiseKeyDown =>
           LET width == CASE player.noteValue = "whole" -> 400000
                          [] player.noteValue = "half" -> 200000
                          [] player.noteValue = "quarter" -> 100000
                          [] player.noteValue = "eighth" -> 50000
                          [] player.noteValue = "sixteenth" -> 25000
               center(i) == obstacles[i].pixelX + 16000
           IN  \A i \in DOMAIN obstacles :
                 ~obstacles[i].hasCollided /\ lineOf(obstacles[i]) \in {55, 90} =>
                   /\ center(i) > 128000 /\ center(i) < 128000 + width =>
                        obstacles'[i].hasCollided
                   /\ center(i) < 128000 \/ center(i) > 128000 + width =>
                        ~obstacles'[i].hasCollided ]_vars

\* at a level above 1, with the sixteenth note selected, an obstacle faster
\* than 150 px/s has just been hit inside the 25 px window
C16_Witness ==
  /\ gameState.difficulty >= 2
  /\ player.noteValue = "sixteenth"
  /\ \E i \in DOMAIN obstacles :
       /\ obstacles[i].speed > 150
       /\ obstacles[i].hasCollided
       /\ obstacles[i].fadeAnimation.isAnimating
       /\ obstacles[i].fadeAnimation.progress = 0
       /\ obstacles[i].pixelX + 16000 > 128000
       /\ obstacles[i].pixelX + 16000 < 128000 + 25000

----------------------------------------------------------------------------
(* Lives, score and obstacle flags over a session *)

\* C17: no step raises lives.current except the restart from GameOver,
\* which sets it to max; every other step leaves it or lowers it, and max
\* never changes.
C17_LivesNeverIncrease ==
  [][ /\ lives'.max = lives.max
      /\ lives'.current > lives.current =>
           GameOver /\ RestartRequestStep /\ lives'.current = lives.max
      /\ ~(GameOver /\ RestartRequestStep) =>
           lives'.current <= lives.current ]_vars

\* right after the restart of a session that a wrong key ended at 0 lives
\* (the red flash of that key is still on): the lives are back at max
C17_Witness ==
  /\ Playing
  /\ gameState.elapsedTime = 0
  /\ lives.current = lives.max
  /\ hitZoneFlash.isFlashing
  /\ hitZoneFlash.color = "red"

\* C18: the score is 0 after a restart, and every other step adds exactly
\* 100 per obstacle that the step marks collided: a step that marks none (a
\* passive miss, a wrong key among them) leaves the score as it is.  The
\* score is therefore a multiple of 100 and never negative.
C18_ScoreOnlyByHits ==
  /\ [](score.current >= 0 /\ score.current % 100 = 0)
  /\ [][ IF GameOver /\ RestartRequestStep
         THEN score'.current = 0
         ELSE LET delta == gameState'.elapsedTime - gameState.elapsedTime
                  carried(i, j) ==
                    /\ obstacles'[j].pixelY = obstacles[i].pixelY
                    /\ obstacles'[j].imagePath = obstacles[i].imagePath
                    /\ obstacles'[j].pixelX =
                          obstacles[i].pixelX - obstacles[i].speed * delta
                  marked == {j \in DOMAIN obstacles' :
                               /\ obstacles'[j].hasCollided
                               /\ ~\E i \in DOMAIN obstacles :
                                     /\ obstacles[i].hasCollided
                                     /\ carried(i, j)}
              IN  /\ score'.current = score.current + 100 * Cardinality(marked)
                  /\ lives'.current < lives.current =>
                       score'.current = score.current ]_vars

\* a session with one hit and two lost lives
C18_Witness ==
  /\ Playing
  /\ score.current = 100
  /\ lives.current = lives.max - 2

\* C19: no obstacle is ever both collided and avoided; an obstacle enters
\* the pool with both flags false; and a flag that is true stays true for as
\* long as the obstacle is in the pool, whatever steps are taken.
C19_FlagsTerminal ==
  /\ [](\A i \in DOMAIN obstacles :
          ~(obstacles[i].hasCollided /\ obstacles[i].hasBeenAvoided))
  /\ [][ LET delta == gameState'.elapsedTime - gameState.elapsedTime
             sources(j) ==
               {i \in DOMAIN obstacles :
                  /\ obstacles'[j].pixelY = obstacles[i].pixelY
                  /\ obstacles'[j].imagePath = obstacles[i].imagePath
                  /\ obstacles'[j].pixelX =
                        obstacles[i].pixelX - obstacles[i].speed * delta}
         IN  \A j \in DOMAIN obstacles' :
               IF sources(j) = {}
               THEN /\ ~obstacles'[j].hasCollided
                    /\ ~obstacles'[j].hasBeenAvoided
               ELSE \A i \in sources(j) :
                      /\ obstacles[i].hasCollided => obstacles'[j].hasCollided
                      /\ obstacles[i].hasBeenAvoided =>
                           obstacles'[j].hasBeenAvoided ]_vars

\* an obstacle that was hit has passed the start of the hit window and is
\* not marked avoided
C19_Witness ==
  \E i \in DOMAIN obstacles :
    /\ obstacles[i].hasCollided
    /\ ~obstacles[i].hasBeenAvoided
    /\ obstacles[i].pixelX + 32000 < 128000

\* C20: a frame step never removes an obstacle whose fade animation is
\* still in progress after the step's fade update: the obstacle, moved by
\* its speed, is in the pool after the step, still fading, with its right
\* edge at x >= 0.
C20_NoRemovalWhileFading ==
  [][ UpdateStepLong =>
        LET delta == gameState'.elapsedTime - gameState.elapsedTime
            movedX(i) == obstacles[i].pixelX - obstacles[i].speed * delta
            fading == {i \in DOMAIN obstacles :
                         /\ obstacles[i].fadeAnimation.isAnimating
                         /\ obstacles[i].fadeAnimation.progress + delta < 500}
        IN  \A i \in fading :
              /\ movedX(i) + 32000 >= 0
              /\ \E j \in DOMAIN obstacles' :
                   /\ obstacles'[j].pixelX = movedX(i)
                   /\ obstacles'[j].pixelY = obstacles[i].pixelY
                   /\ obstacles'[j].speed = obstacles[i].speed
                   /\ obstacles'[j].hasCollided
                   /\ obstacles'[j].fadeAnimation.isAnimating
                   /\ obstacles'[j].fadeAnimation.progress =
                         obstacles[i].fadeAnimation.progress + delta ]_vars

\* an obstacle of the highest speed in the last frame of its fade: part of
\* it is off the left edge, its right edge is still on the canvas
C20_Witness ==
  \E i \in DOMAIN obstacles :
    /\ obstacles[i].speed = 270
    /\ obstacles[i].fadeAnimation.isAnimating
    /\ obstacles[i].fadeAnimation.progress + DELTA_CAP >= 500
    /\ obstacles[i].pixelX < 0
    /\ obstacles[i].pixelX + 32000 >= 0

----------------------------------------------------------------------------
(* Cleanup, frame cap, unmapped keys, window ends *)

\* C21: after every frame step the pool holds no obstacle that is fully
\* off the left edge (pixelX + 32 < 0) and none whose fade animation has
\* completed: such an obstacle is destroyed in the step in which it gets
\* there.
C21_NoLingering ==
  [][ UpdateStep =>
        \A j \in DOMAIN obstacles' :
          /\ obstacles'[j].pixelX + 32000 >= 0
          /\ ~(/\ obstacles'[j].fadeAnimation.progress >= 500
               /\ ~obstacles'[j].fadeAnimation.isAnimating) ]_vars

\* the obstacle that was hit has been destroyed at the end of its fade,
\* before it could have left the canvas, and the next one is not spawned yet
C21_Witness ==
  /\ Playing
  /\ score.current = 100
  /\ obstacles = <<>>
  /\ gameState.elapsedTime < 2000 + 600
  /\ obstacleSpawner.currentImageIndex = 1

\* Frames of uneven length: the gaps between two timestamps are shorter
\* than the cap (7 ms, a 144 Hz display), equal to it, or much longer (a
\* pause of 1 s); no key is pressed.
FrameGaps == {7, 16, 1000}

GapFrame == /\ \E rawDelta \in FrameGaps :
                 \E randomIndex \in (IF randomIndices(rawDelta) = {0}
                                      THEN {0} ELSE LongStaffIndices) :
                   loop(rawDelta, randomIndex)
            /\ UNCHANGED heldNoteKeys

NextGaps == StartClick \/ GapFrame

SpecGaps == Init /\ [][NextGaps]_allVars

\* C22: a simulation step run for a raw frame gap advances elapsedTime by
\* min(gap, 16 ms), hence by at most 16 ms, and moves every obstacle that
\* stays in the pool by its speed times that delta, hence by at most
\* speed * 0.016 px.
C22_DeltaCapped ==
  [][ \A rawDelta \in FrameGaps :
        (Playing /\ \E randomIndex \in 0..8 : loop(rawDelta, randomIndex)) =>
          LET delta == IF rawDelta < 16 THEN rawDelta ELSE 16
              spawned == IF obstacleSpawner'.timeSinceLastSpawn = 0 THEN 1 ELSE 0
          IN  /\ gameState'.elapsedTime = gameState.elapsedTime + delta
              /\ gameState'.elapsedTime - gameState.elapsedTime <= 16
              /\ \A j \in 1..(Len(obstacles') - spawned) :
                   \E i \in DOMAIN obstacles :
                     /\ obstacles'[j].pixelY = obstacles[i].pixelY
                     /\ obstacles'[j].imagePath = obstacles[i].imagePath
                     /\ obstacles'[j].pixelX =
                           obstacles[i].pixelX - obstacles[i].speed * delta
                     /\ obstacles[i].pixelX - obstacles'[j].pixelX
                           <= obstacles[i].speed * 16 ]_vars

\* an obstacle is under way in a session whose clock shows that a frame
\* shorter than the cap was run with its own length
C22_Witness ==
  /\ Playing
  /\ obstacles # <<>>
  /\ gameState.elapsedTime % 16 = 7

\* C23: a key-down or key-up of a key that is none of the seven note
\* letters, and is not R pressed during game over, changes nothing: score,
\* lives, obstacles, game state, held-key flag and all the rest are as
\* before.
C23_UnmappedKeyIgnored ==
  [][ \A key \in Keys :
        LET letters == {"c", "d", "e", "f", "g", "a", "b",
                        "C", "D", "E", "F", "G", "A", "B"}
            restart == key \in {"r", "R"} /\ gameState.isGameOver
        IN  /\ key \notin letters
            /\ \/ handleKeyDown(key) /\ ~restart
               \/ handleKeyUp(key)
            => UNCHANGED vars ]_vars

\* a state in which a key press matters (an unresolved obstacle is in the
\* hit window, a note key is held) and the keys x and R are ignored
C23_Witness ==
  /\ Playing
  /\ gameState.isNoteKeyPressed
  /\ lives.current = 4
  /\ \E i \in DOMAIN obstacles :
       unresolved(obstacles[i]) /\ centerInWindow(obstacles[i])

----------------------------------------------------------------------------
(* Sessions on a wider canvas: obstacles on the two lines of the letter e  *)
(* enter to the right of the hit window of a sixteenth; the player clicks  *)
(* the half and the sixteenth note and presses the key e at will.          *)

WideClickTargets == {"half", "sixteenth"}

WideFrame ==
  /\ simulationRuns
  /\ gameState.elapsedTime + DELTA_CAP <= MaxSteps * DELTA_CAP
  /\ \E randomIndex \in (IF randomIndices(DELTA_CAP) = {0}
                          THEN {0} ELSE LongStaffIndices) :
        updateOn(WideGameWidth, DELTA_CAP, randomIndex)
  /\ UNCHANGED heldNoteKeys

WideKeyDown == sessionKeyDown(0, RiseKeys)

WideKeyUp == sessionKeyUp(RiseKeys)

WideClick == /\ \E target \in WideClickTargets : handleCanvasClick(target)
             /\ UNCHANGED heldNoteKeys

NextWide == StartClick \/ WideFrame \/ WideKeyDown \/ WideKeyUp \/ WideClick

SpecWide == Init /\ [][NextWide]_allVars

\* C24 (as claimed): the hit window is [overlayStart, overlayEnd).  At a
\* key press an unresolved obstacle on a line of the key whose centre is at
\* overlayStart is hit; one whose centre is exactly at overlayEnd is
\* outside: it is not hit, and it does not count as present.
C24_HalfOpenWindow ==
  [][ Playing /\ WideKeyDown =>
        LET width == CASE player.noteValue = "whole" -> 400000
                       [] player.noteValue = "half" -> 200000
                       [] player.noteValue = "quarter" -> 100000
                       [] player.noteValue = "eighth" -> 50000
                       [] player.noteValue = "sixteenth" -> 25000
            center(i) == obstacles[i].pixelX + 16000
            candidates == {i \in DOMAIN obstacles :
                             /\ unresolved(obstacles[i])
                             /\ lineOf(obstacles[i]) \in {55, 90}}
        IN  \A i \in candidates :
              /\ center(i) = 128000 => obstacles'[i].hasCollided
              /\ center(i) = 128000 + width =>
                   /\ ~obstacles'[i].hasCollided
                   /\ score' = score
                   /\ lives' = lives ]_vars

----------------------------------------------------------------------------
(* Crossing sessions: a canvas wide enough for every obstacle to enter     *)
(* right of the hit window of every note value; the note value is chosen   *)
(* at the start of a session; the player hits every obstacle as soon as it *)
(* is in the window during the first CrossPerfectSteps frames and plays    *)
(* freely with the key e afterwards.                                       *)

CrossStaffIndices == {1}

CrossFrame ==
  sessionFrameOn(CrossGameWidth, CrossStaffIndices, CrossPerfectSteps,
                 MaxCrossSteps)

CrossKeyDown == sessionKeyDown(CrossPerfectSteps, RiseKeys)

CrossKeyUp == sessionKeyUp(RiseKeys)

CrossClick ==
  /\ gameState.elapsedTime = 0
  /\ \E target \in NOTE_VALUES : handleCanvasClick(target)
  /\ UNCHANGED heldNoteKeys

NextCross == StartClick \/ CrossFrame \/ CrossKeyDown \/ CrossKeyUp \/ CrossClick

SpecCross == Init /\ [][NextCross]_allVars

\* C25: no obstacle tunnels through the hit window: a frame step never takes
\* an obstacle that was not hit and whose center is right of the window's end to a center left of
\* the window's start, whatever its speed (150..270) and whatever the note
\* value (window width >= 25 px); so an obstacle that passes from the right
\* of the window to the left of overlayStart has its center inside the
\* window at the end of at least one frame step.
C25_NoTunnelling ==
  [][ Playing /\ CrossFrame =>
        LET delta == gameState'.elapsedTime - gameState.elapsedTime
            center(obs) == obs.pixelX + (GRID_SIZE * 1000) \div 2
            rightOf(obs, noteValue) ==
              center(obs) > overlayEndX(noteValue)
        IN  /\ delta <= DELTA_CAP
            /\ \A i \in DOMAIN obstacles : \A noteValue \in NOTE_VALUES :
                 ~obstacles[i].hasCollided /\ rightOf(obstacles[i], noteValue) =>
                   \E j \in DOMAIN obstacles' :
                     /\ obstacles'[j].pixelY = obstacles[i].pixelY
                     /\ obstacles'[j].imagePath = obstacles[i].imagePath
                     /\ obstacles'[j].speed = obstacles[i].speed
                     /\ obstacles'[j].pixelX =
                           obstacles[i].pixelX - obstacles[i].speed * delta
                     /\ \/ rightOf(obstacles'[j], noteValue)
                        \/ isWithinOverlay(obstacles'[j], noteValue)
            /\ \A j \in DOMAIN obstacles' :
                 /\ ~isWithinOverlay(obstacles'[j], player.noteValue)
                 /\ ~rightOf(obstacles'[j], player.noteValue)
                 => \E i \in DOMAIN obstacles :
                      /\ obstacles'[j].pixelX =
                            obstacles[i].pixelX - obstacles[i].speed * delta
                      /\ ~rightOf(obstacles[i], player.noteValue) ]_vars

\* an obstacle of the highest speed has passed the narrowest window (the
\* sixteenth note's, 25 px) without being hit and has just been counted as
\* missed left of it
C25_Witness ==
  /\ player.noteValue = "sixteenth"
  /\ \E i \in DOMAIN obstacles :
       /\ obstacles[i].speed = 270
       /\ obstacles[i].hasBeenAvoided
       /\ ~obstacles[i].hasCollided
       /\ obstacles[i].pixelX + 32000 < overlayStartX
       /\ obstacles[i].pixelX + 32000 + 270 * DELTA_CAP >= overlayStartX

\* C26: a frame step spawns at most one obstacle, and only when the time
\* accumulated since the last spawn has reached the spawn interval of the
\* current level, after which the accumulator is 0; otherwise the accumulator
\* grows by the step's delta; so in every state
\* 0 <= timeSinceLastSpawn < spawnInterval(difficulty), and an obstacle
\* spawned earlier in the session has been under way for at least the spawn
\* interval when the next one is spawned.
C26_SpawnTimer ==
  /\ [](/\ obstacleSpawner.timeSinceLastSpawn >= 0
        /\ obstacleSpawner.timeSinceLastSpawn
             < Max(800, 2000 - (gameState.difficulty - 1) * 200))
  /\ [][ Playing /\ CrossFrame =>
           LET delta == gameState'.elapsedTime - gameState.elapsedTime
               since == obstacleSpawner.timeSinceLastSpawn + delta
               interval == Max(800, 2000 - (gameState'.difficulty - 1) * 200)
               carried(i, j) ==
                 /\ obstacles'[j].pixelY = obstacles[i].pixelY
                 /\ obstacles'[j].imagePath = obstacles[i].imagePath
                 /\ obstacles'[j].pixelX =
                       obstacles[i].pixelX - obstacles[i].speed * delta
               spawned == {j \in DOMAIN obstacles' :
                             ~\E i \in DOMAIN obstacles : carried(i, j)}
           IN  /\ Cardinality(spawned) <= 1
               /\ Len(obstacles') <= Len(obstacles) + 1
               /\ spawned # {} <=> since >= interval
               /\ obstacleSpawner'.timeSinceLastSpawn =
                    IF spawned # {} THEN 0 ELSE since
               /\ spawned # {} =>
                    \A j \in DOMAIN obstacles' \ spawned :
                      CrossGameWidth * 1000 - obstacles'[j].pixelX
                        >= obstacles'[j].speed * (interval + delta) ]_vars

\* at level 5 an obstacle has just been spawned, the accumulator is back at
\* 0, and the obstacle spawned before it is still under way
C26_Witness ==
  /\ Playing
  /\ gameState.difficulty = 5
  /\ obstacleSpawner.timeSinceLastSpawn = 0
  /\ Len(obstacles) >= 2
  /\ obstacles[Len(obstacles)].pixelX =
       CrossGameWidth * 1000 - obstacles[Len(obstacles)].speed * DELTA_CAP
  /\ ~obstacles[Len(obstacles) - 1].hasCollided
  /\ obstacles[Len(obstacles) - 1].speed = 270

\* C27: an obstacle spawned by a frame step entered the pool at the right
\* edge of the play area (it is one step's motion left of it after the
\* step), on one of the nine staff lines 5.0, 5.5, ..., 9.0, with both flags
\* false and an inactive fade animation; its image is the entry the rotation
\* pointed at, and the rotation advances by one modulo 4 at every spawn and
\* at no other step, the restart included, so that the k-th spawn since the
\* program started uses entry k mod 4.
C27_SpawnedObstacle ==
  /\ [](obstacleSpawner.currentImageIndex \in 0..3)
  /\ [][ IF UpdateStep
         THEN LET delta == gameState'.elapsedTime - gameState.elapsedTime
                  carried(i, j) ==
                    /\ obstacles'[j].pixelY = obstacles[i].pixelY
                    /\ obstacles'[j].imagePath = obstacles[i].imagePath
                    /\ obstacles'[j].pixelX =
                          obstacles[i].pixelX - obstacles[i].speed * delta
                  spawned == {j \in DOMAIN obstacles' :
                                ~\E i \in DOMAIN obstacles : carried(i, j)}
              IN  /\ \A j \in spawned :
                       /\ obstacles'[j].pixelX + obstacles'[j].speed * delta
                            = GameWidth * 1000
                       /\ obstacles'[j].pixelY \in
                            {(line * GRID_SIZE * 1000) \div 10 :
                               line \in {50, 55, 60, 65, 70, 75, 80, 85, 90}}
                       /\ ~obstacles'[j].hasCollided
                       /\ ~obstacles'[j].hasBeenAvoided
                       /\ ~obstacles'[j].fadeAnimation.isAnimating
                       /\ obstacles'[j].fadeAnimation.progress = 0
                       /\ obstacles'[j].imagePath =
                            obstacleSpawner.currentImageIndex
                  /\ obstacleSpawner'.currentImageIndex =
                       IF spawned # {}
                       THEN (obstacleSpawner.currentImageIndex + 1) % 4
                       ELSE obstacleSpawner.currentImageIndex
         ELSE obstacleSpawner'.currentImageIndex =
                obstacleSpawner.currentImageIndex ]_vars

\* the first obstacle of a second session, on the lowest staff line 9.0: it
\* is the third spawn since the program started and has the third image
C27_Witness ==
  /\ Playing
  /\ gameState.elapsedTime <= 2000 + DELTA_CAP
  /\ obstacleSpawner.currentImageIndex = 3
  /\ obstacleSpawner.timeSinceLastSpawn = 0
  /\ \E i \in DOMAIN obstacles :
       /\ obstacles[i].pixelX = GameWidth * 1000 - obstacles[i].speed * DELTA_CAP
       /\ lineOf(obstacles[i]) = 90
       /\ obstacles[i].imagePath = 2
       /\ ~obstacles[i].hasCollided
       /\ ~obstacles[i].hasBeenAvoided

----------------------------------------------------------------------------
(* The passive collision of checkPlayerCollisions, applied by frame steps  *)
(* to drawn inputs: the player stands on the line 4.0 or on or near the    *)
(* staff line 5.0, one or two obstacles approach or overlap the player,    *)
(* collided or not, with a note key held or not.                           *)

CollidePlayerYs == {128000, 160000, 161000, 162000}

CollideObstacleXs == {96000, 98400, 130400, 160000, 162400}

CollideObstacleYs == {160000, 176000}

CollideObstacles ==
  {[obstacleGenerator(x, y, 0, getObstacleSpeed(1)) EXCEPT
      !.hasCollided = collided,
      !.fadeAnimation = IF collided THEN animationStart(@) ELSE @] :
     x \in CollideObstacleXs, y \in CollideObstacleYs, collided \in BOOLEAN}

InitCollide ==
  /\ heldNoteKeys \in {{}, {"e"}}
  /\ gameState = [hasStarted |-> TRUE, isGameOver |-> FALSE,
                  isNoteKeyPressed |-> heldNoteKeys # {},
                  currentNoteGridY |-> IF heldNoteKeys # {} THEN <<55>> ELSE <<>>,
                  elapsedTime |-> 0, difficulty |-> 1]
  /\ lives = [current |-> MAX_LIVES, max |-> MAX_LIVES]
  /\ score = [current |-> 0]
  /\ obstacles \in {<<a>> : a \in CollideObstacles}
                     \cup {<<a, b>> : a \in CollideObstacles, b \in CollideObstacles}
  /\ obstacleSpawner = [timeSinceLastSpawn |-> 0, currentImageIndex |-> 1]
  /\ uiState = [selectedNote |-> "half"]
  /\ \E pixelY \in CollidePlayerYs :
       player = [pixelX |-> PLAYER_INITIAL_GRID_X * GRID_SIZE * 1000,
                 pixelY |-> pixelY, noteValue |-> "half"]
  /\ movement = [isMoving |-> FALSE, moveProgress |-> 0,
                 nextPixelX |-> <<>>, nextPixelY |-> <<>>]
  /\ playerAnimation = [isAnimating |-> FALSE, progress |-> 0]
  /\ noteDisplay = [noteName |-> <<>>, displayTime |-> 0]
  /\ hitZoneFlash = [isFlashing |-> FALSE, color |-> "green", progress |-> 0]

CollideFrame == sessionFrameOn(GameWidth, {0}, 0, MaxCollideSteps)

NextCollide == CollideFrame

SpecCollide == InitCollide /\ [][NextCollide]_allVars

\* C28: in every frame step, whether a note key is held or not, each
\* obstacle that is not yet collided, whose center after the step's motion
\* is less than one player-width (32 px) from the player's center and whose
\* staff line is the player's, is marked hasCollided and starts its fade
\* animation; the score grows by exactly 100 for each such obstacle, so by
\* nothing for one that was collided already; the player-hit animation is
\* started; and no other obstacle is marked.
C28_PassiveCollision ==
  [][ Playing /\ CollideFrame =>
        LET delta == gameState'.elapsedTime - gameState.elapsedTime
            movedX(i) == obstacles[i].pixelX - obstacles[i].speed * delta
            line(pixelY) == (pixelY * 10 + 16000) \div 32000
            dx(i) == Abs(player.pixelX + 16000 - (movedX(i) + 16000))
            collides(i) == /\ dx(i) < 32000
                           /\ line(obstacles[i].pixelY) = line(player.pixelY)
            hits == {i \in DOMAIN obstacles :
                       ~obstacles[i].hasCollided /\ collides(i)}
        IN  /\ Len(obstacles') = Len(obstacles)
            /\ \A i \in DOMAIN obstacles :
                 /\ obstacles'[i].pixelX = movedX(i)
                 /\ obstacles'[i].hasCollided <=>
                      obstacles[i].hasCollided \/ i \in hits
                 /\ i \in hits =>
                      /\ obstacles'[i].fadeAnimation.isAnimating
                      /\ obstacles'[i].fadeAnimation.progress = 0
            /\ score'.current = score.current + 100 * Cardinality(hits)
            /\ hits # {} =>
                 /\ playerAnimation'.isAnimating
                 /\ playerAnimation'.progress = delta ]_vars

\* with no note key held, an obstacle overlapping the player on the
\* player's staff line has just been marked, for 100 points, and an obstacle
\* on another line next to it has not
C28_Witness ==
  /\ heldNoteKeys = {}
  /\ ~gameState.isNoteKeyPressed
  /\ gameState.elapsedTime = DELTA_CAP
  /\ score.current = 100
  /\ playerAnimation.isAnimating
  /\ Len(obstacles) = 2
  /\ obstacles[1].hasCollided
  /\ obstacles[1].fadeAnimation.isAnimating
  /\ obstacles[1].fadeAnimation.progress = 0
  /\ obstacles[1].pixelX = 128000
  /\ obstacles[1].pixelY = 160000
  /\ player.pixelY = 161000
  /\ ~obstacles[2].hasCollided
  /\ obstacles[2].pixelX = 128000
  /\ obstacles[2].pixelY = 176000

\* C29 (as claimed): the resolution of a key press is idempotent: a second
\* key-down of the same note key with no frame step in between (the hit
\* animations, or the red flash, of the first press are still at progress 0)
\* leaves score and lives as they were after the first press, both when the
\* first press was a hit and when it was a wrong-key miss.
C29_SecondPressIdempotent ==
  [][ LET afterHit ==
            /\ playerAnimation.isAnimating
            /\ playerAnimation.progress = 0
            /\ \E i \in DOMAIN obstacles :
                 /\ obstacles[i].hasCollided
                 /\ obstacles[i].fadeAnimation.isAnimating
                 /\ obstacles[i].fadeAnimation.progress = 0
          afterMiss ==
            /\ hitZoneFlash.isFlashing
            /\ hitZoneFlash.color = "red"
            /\ hitZoneFlash.progress = 0
      IN  /\ Playing
          /\ afterHit \/ afterMiss
          /\ NoteKeyDownStep
          => score' = score /\ lives' = lives ]_vars

----------------------------------------------------------------------------
(* Sessions on a wide canvas with the sixteenth note: the last obstacle of *)
(* level 1 and the first, faster one of level 2 pass the start of the hit  *)
(* window in the same frame; the player hits every obstacle as soon as it  *)
(* is in the window during the first FarPerfectSteps frames and presses    *)
(* only the wrong key c afterwards.                                        *)

FarKeys == {"e", "c"}

FarFrame ==
  IF simulationRuns
  THEN sessionFrameOn(FarGameWidth, CrossStaffIndices, FarPerfectSteps,
                      MaxFarSteps)
  ELSE UNCHANGED allVars

\* the key pressed is e during the first FarPerfectSteps frames and the
\* wrong key c afterwards
FarKeyDown ==
  \E key \in FarKeys :
    /\ playsPerfectly(FarPerfectSteps) <=> key = "e"
    /\ handleKeyDown(key)
    /\ heldNoteKeys' = heldNoteKeys \cup {key}

FarKeyUp == sessionKeyUp(FarKeys)

FarClick ==
  /\ gameState.elapsedTime = 0
  /\ handleCanvasClick("sixteenth")
  /\ UNCHANGED heldNoteKeys

NextFar == StartClick \/ FarFrame \/ FarKeyDown \/ FarKeyUp \/ FarClick

SpecFar == Init /\ [][NextFar]_allVars

\* C30: the frame step in which the lives reach 0 is carried out to its end:
\* every unresolved obstacle whose right edge is left of overlayStart after
\* the step's motion is marked avoided, the obstacles after the one that
\* took the last life included; the lives are 0, not less; elapsed time,
\* cleanup and the animation updates are those of any frame step; the game
\* is over after the step, and a frame in a game that is over changes
\* nothing.
C30_LastLifeStepCompletes ==
  /\ [](lives.current >= 0)
  /\ [][ Playing /\ FarFrame /\ lives'.current = 0 =>
           LET delta == DELTA_CAP
               movedX(i) == obstacles[i].pixelX - obstacles[i].speed * delta
               passed == {i \in DOMAIN obstacles :
                            /\ unresolved(obstacles[i])
                            /\ movedX(i) + 32000 < overlayStartX}
           IN  /\ gameState'.isGameOver
               /\ gameState'.elapsedTime = gameState.elapsedTime + delta
               /\ Cardinality(passed) >= lives.current
               /\ \A i \in passed :
                    \E j \in DOMAIN obstacles' :
                      /\ obstacles'[j].pixelX = movedX(i)
                      /\ obstacles'[j].pixelY = obstacles[i].pixelY
                      /\ obstacles'[j].speed = obstacles[i].speed
                      /\ obstacles'[j].hasBeenAvoided
               /\ \A j \in DOMAIN obstacles' :
                    /\ obstacles'[j].pixelX + 32000 >= 0
                    /\ ~(obstacles'[j].fadeAnimation.progress >= FADE_DURATION
                         /\ ~obstacles'[j].fadeAnimation.isAnimating)
                    /\ ~unresolved(obstacles'[j]) \/
                         obstacles'[j].pixelX + 32000 >= overlayStartX
               /\ \A i \in DOMAIN obstacles :
                    obstacles[i].fadeAnimation.isAnimating
                    /\ obstacles[i].fadeAnimation.progress + delta < FADE_DURATION
                    => \E j \in DOMAIN obstacles' :
                         /\ obstacles'[j].pixelX = movedX(i)
                         /\ obstacles'[j].fadeAnimation.progress =
                              obstacles[i].fadeAnimation.progress + delta
               /\ playerAnimation' = animationUpdate(playerAnimation, delta,
                                                     PLAYER_ANIMATION_DURATION)
               /\ noteDisplay' = noteDisplayUpdate(noteDisplay, delta)
               /\ hitZoneFlash' = hitZoneFlashUpdate(hitZoneFlash, delta) ]_vars
  /\ [][ GameOver /\ FarFrame => UNCHANGED vars ]_vars

\* the game has just ended in a frame step that two obstacles, of speeds 150
\* and 180, left unresolved past the start of the hit window with one life
\* left: both are marked avoided, the lives are 0, and the red flash of a
\* wrong key pressed before the step has advanced
C30_Witness ==
  /\ gameState.isGameOver
  /\ lives.current = 0
  /\ hitZoneFlash.color = "red"
  /\ hitZoneFlash.isFlashing
  /\ hitZoneFlash.progress >= DELTA_CAP
  /\ Len(obstacles) >= 2
  /\ obstacles[1].speed = 150
  /\ obstacles[2].speed = 180
  /\ \A i \in 1..2 :
       /\ obstacles[i].hasBeenAvoided
       /\ ~obstacles[i].hasCollided
       /\ obstacles[i].pixelX + 32000 < overlayStartX
       /\ obstacles[i].pixelX + 32000 + obstacles[i].speed * DELTA_CAP
            >= overlayStartX

----------------------------------------------------------------------------
(* Progress: requestAnimationFrame keeps calling loop, so a frame step     *)
(* that is possible is eventually taken. Sessions with the key e and       *)
(* obstacles on the lines 5.0 (not a line of e) and 5.5 (a line of e).     *)

LiveStaffIndices == {0, 1}

LiveFrame == sessionFrameOn(GameWidth, LiveStaffIndices, 0, MaxSteps)

LiveKeyDown == sessionKeyDown(0, RiseKeys)

LiveKeyUp == sessionKeyUp(RiseKeys)

NextLive == StartClick \/ LiveFrame \/ LiveKeyDown \/ LiveKeyUp

SpecFair == Init /\ [][NextLive]_allVars /\ WF_allVars(LiveFrame)

\* C31: while the game stays Playing and frames keep arriving, an obstacle
\* that is not hit is eventually marked avoided (as long as the session has
\* frames left for it to pass the start of the hit window); a frame step
\* takes one life for each obstacle it marks avoided, down to 0, and marks
\* only obstacles that were unresolved, so that an obstacle is charged once.
C31_EventuallyAvoided ==
  /\ \A image \in 0..1 :
       (/\ Playing
        /\ \E i \in DOMAIN obstacles :
             /\ obstacles[i].imagePath = image
             /\ unresolved(obstacles[i])
             /\ obstacles[i].pixelX + 32000 - overlayStartX <
                  obstacles[i].speed
                    * (MaxSteps * DELTA_CAP - gameState.elapsedTime))
       ~> (\/ ~Playing
           \/ \E i \in DOMAIN obstacles :
                /\ obstacles[i].imagePath = image
                /\ obstacles[i].hasCollided \/ obstacles[i].hasBeenAvoided)
  /\ [][ Playing /\ LiveFrame =>
           LET marked == {j \in DOMAIN obstacles' :
                            /\ obstacles'[j].hasBeenAvoided
                            /\ \E i \in DOMAIN obstacles :
                                 /\ obstacles[i].imagePath =
                                      obstacles'[j].imagePath
                                 /\ unresolved(obstacles[i])}
               avoidedBefore == {i \in DOMAIN obstacles :
                                   obstacles[i].hasBeenAvoided}
               avoidedAfter == {j \in DOMAIN obstacles' :
                                  obstacles'[j].hasBeenAvoided}
           IN  /\ lives'.current =
                    Max(0, lives.current - Cardinality(marked))
               /\ Cardinality(avoidedAfter)
                    <= Cardinality(avoidedBefore) + Cardinality(marked) ]_vars

\* an obstacle that was never hit has passed the start of the hit window:
\* it is marked avoided and one life is gone
C31_Witness ==
  /\ Playing
  /\ score.current = 0
  /\ lives.current = lives.max - 1
  /\ Len(obstacles) = 1
  /\ obstacles[1].hasBeenAvoided
  /\ ~obstacles[1].hasCollided
  /\ obstacles[1].pixelX + 32000 < overlayStartX

----------------------------------------------------------------------------
(* Animations, pitch matching, pool size *)

\* C32: for the fade, player-hit and hit-zone-flash animations (durations
\* 0.5, 0.2 and 0.3 s; progress is counted in ms of the duration): a start
\* sets the animation active with progress 0; an update by a frame step
\* leaves an inactive animation as it is and otherwise adds the step's delta,
\* and on reaching the duration sets progress to exactly the duration and
\* deactivates; so in every state 0 <= progress <= duration and an active
\* animation has progress < duration.
C32_Animations ==
  /\ [](LET inRange(progress, active, duration) ==
              /\ progress >= 0
              /\ progress <= duration
              /\ active => progress < duration
        IN  /\ inRange(playerAnimation.progress, playerAnimation.isAnimating, 200)
            /\ inRange(hitZoneFlash.progress, hitZoneFlash.isFlashing, 300)
            /\ \A i \in DOMAIN obstacles :
                 inRange(obstacles[i].fadeAnimation.progress,
                         obstacles[i].fadeAnimation.isAnimating, 500))
  /\ [][ LET delta == gameState'.elapsedTime - gameState.elapsedTime
             updated(progress, active, duration) ==
               IF ~active THEN <<progress, FALSE>>
               ELSE IF progress + delta >= duration THEN <<duration, FALSE>>
               ELSE <<progress + delta, TRUE>>
         IN  /\ UpdateStep =>
                  /\ <<playerAnimation'.progress, playerAnimation'.isAnimating>>
                       = updated(playerAnimation.progress,
                                 playerAnimation.isAnimating, 200)
                  /\ <<hitZoneFlash'.progress, hitZoneFlash'.isFlashing>>
                       = updated(hitZoneFlash.progress,
                                 hitZoneFlash.isFlashing, 300)
                  /\ \A j \in DOMAIN obstacles' :
                       obstacles'[j].pixelX # GameWidth * 1000
                                                - obstacles'[j].speed * delta
                       => \E i \in DOMAIN obstacles :
                            /\ obstacles'[j].pixelX =
                                 obstacles[i].pixelX - obstacles[i].speed * delta
                            /\ <<obstacles'[j].fadeAnimation.progress,
                                 obstacles'[j].fadeAnimation.isAnimating>>
                                 = updated(obstacles[i].fadeAnimation.progress,
                                           obstacles[i].fadeAnimation.isAnimating,
                                           500)
             /\ Playing /\ NoteKeyDownStep =>
                  /\ \A i \in DOMAIN obstacles :
                       ~obstacles[i].hasCollided /\ obstacles'[i].hasCollided
                       => /\ obstacles'[i].fadeAnimation.isAnimating
                          /\ obstacles'[i].fadeAnimation.progress = 0
                          /\ playerAnimation'.isAnimating
                          /\ playerAnimation'.progress = 0
                  /\ lives'.current < lives.current =>
                       /\ hitZoneFlash'.isFlashing
                       /\ hitZoneFlash'.progress = 0 ]_vars

\* 208 ms after a hit: the player-hit animation (0.2 s) has been clamped to
\* its end and is inactive, the obstacle's fade (0.5 s) is still active
C32_Witness ==
  /\ ~playerAnimation.isAnimating
  /\ playerAnimation.progress = 200
  /\ \E i \in DOMAIN obstacles :
       /\ obstacles[i].hasCollided
       /\ obstacles[i].fadeAnimation.isAnimating
       /\ obstacles[i].fadeAnimation.progress = 208

\* C33 inputs: a movement of the player from the line 4.0 to the line 6.0
\* is in progress, at several points of its 0.15 s, while one or two
\* obstacles on the lines 5.0, 5.5 and 6.0 overlap the player
MoveProgresses == {0, 27, 59, 64, 96, 134}

MoveObstacles ==
  {[obstacleGenerator(x, y, 0, getObstacleSpeed(1)) EXCEPT
      !.hasCollided = collided,
      !.fadeAnimation = IF collided THEN animationStart(@) ELSE @] :
     x \in {130400, 160000}, y \in {160000, 176000, 192000},
     collided \in BOOLEAN}

InitMove ==
  /\ heldNoteKeys = {}
  /\ gameState = [hasStarted |-> TRUE, isGameOver |-> FALSE,
                  isNoteKeyPressed |-> FALSE, currentNoteGridY |-> <<>>,
                  elapsedTime |-> 0, difficulty |-> 1]
  /\ lives = [current |-> MAX_LIVES, max |-> MAX_LIVES]
  /\ score = [current |-> 0]
  /\ obstacles \in {<<a>> : a \in MoveObstacles}
                     \cup {<<a, b>> : a \in MoveObstacles, b \in MoveObstacles}
  /\ obstacleSpawner = [timeSinceLastSpawn |-> 0, currentImageIndex |-> 1]
  /\ uiState = [selectedNote |-> "half"]
  /\ player = [pixelX |-> PLAYER_INITIAL_GRID_X * GRID_SIZE * 1000,
               pixelY |-> PLAYER_INITIAL_GRID_Y * GRID_SIZE * 1000,
               noteValue |-> "half"]
  /\ \E moveProgress \in MoveProgresses :
       movement = [isMoving |-> TRUE, moveProgress |-> moveProgress,
                   nextPixelX |-> <<PLAYER_INITIAL_GRID_X * GRID_SIZE * 1000>>,
                   nextPixelY |-> <<6 * GRID_SIZE * 1000>>]
  /\ playerAnimation = [isAnimating |-> FALSE, progress |-> 0]
  /\ noteDisplay = [noteName |-> <<>>, displayTime |-> 0]
  /\ hitZoneFlash = [isFlashing |-> FALSE, color |-> "green", progress |-> 0]

MoveFrame == sessionFrameOn(GameWidth, {0}, 0, MaxCollideSteps)

MoveKeyDown == sessionKeyDown(0, RiseKeys)

MoveKeyUp == sessionKeyUp(RiseKeys)

NextMove == MoveFrame \/ MoveKeyDown \/ MoveKeyUp

SpecMove == InitMove /\ [][NextMove]_allVars

C34_PoolBounded ==
  /\ Len(obstacles) <= (FarGameWidth + 32) \div 180 + 2
  /\ \A i \in DOMAIN obstacles :
       /\ obstacles[i].pixelX + 32000 >= 0
       /\ obstacles[i].pixelX < FarGameWidth * 1000

\* seven obstacles are in the pool on the 1896 px play area: the oldest one
\* has been hit and is fading, six are on their way to the hit window
C34_Witness ==
  /\ Len(obstacles) = 7
  /\ obstacles[1].hasCollided
  /\ obstacles[1].fadeAnimation.isAnimating
  /\ \A i \in 2..7 : unresolved(obstacles[i])

----------------------------------------------------------------------------
(* Sessions in which no key is pressed, with frames that keep arriving *)

IdleFrame == sessionFrameOn(GameWidth, LiveStaffIndices, 0, MaxIdleSteps)

NextIdle == StartClick \/ IdleFrame

SpecIdle == Init /\ [][NextIdle]_allVars /\ WF_allVars(IdleFrame)

\* C35: if frames keep arriving and no note key is pressed, a game that is
\* Playing eventually is over; every frame step on the way takes as many
\* lives as it marks obstacles avoided, at most one, and the game is over
\* exactly when the lives are 0, with no points scored and no obstacle hit:
\* after lives.max passive misses, of the first lives.max obstacles spawned.
C35_IdleGameEnds ==
  /\ Playing ~> GameOver
  /\ [](/\ score.current = 0
        /\ \A i \in DOMAIN obstacles : ~obstacles[i].hasCollided
        /\ gameState.isGameOver <=> lives.current = 0
        /\ gameState.isGameOver =>
             /\ obstacleSpawner.currentImageIndex = lives.max % 4
             /\ gameState.elapsedTime < (lives.max + 1) * 2000)
  /\ [][ Playing /\ IdleFrame =>
           LET marked == {j \in DOMAIN obstacles' :
                            /\ obstacles'[j].hasBeenAvoided
                            /\ \E i \in DOMAIN obstacles :
                                 /\ obstacles[i].imagePath =
                                      obstacles'[j].imagePath
                                 /\ ~obstacles[i].hasBeenAvoided}
           IN  /\ lives'.current = lives.current - Cardinality(marked)
               /\ Cardinality(marked) <= 1 ]_vars

\* the game is over: the fifth obstacle has just been missed
C35_Witness ==
  /\ GameOver
  /\ lives.current = 0
  /\ score.current = 0
  /\ Len(obstacles) = 1
  /\ obstacles[1].hasBeenAvoided
  /\ obstacles[1].imagePath = 0
  /\ obstacleSpawner.currentImageIndex = 1

----------------------------------------------------------------------------
(* Removal, passive collision, key presses, held keys, letter table *)

\* C36: no obstacle leaves the pool unresolved during play: an obstacle that
\* a frame step removes has exactly one of hasCollided and hasBeenAvoided
\* set; the only other step that removes obstacles is the restart, which
\* empties the pool.
C36_RemovedResolved ==
  [][ LET delta == gameState'.elapsedTime - gameState.elapsedTime
          removed == {i \in DOMAIN obstacles :
                        ~\E j \in DOMAIN obstacles' :
                            /\ obstacles'[j].imagePath = obstacles[i].imagePath
                            /\ obstacles'[j].pixelY = obstacles[i].pixelY
                            /\ obstacles'[j].pixelX =
                                 obstacles[i].pixelX - obstacles[i].speed * delta}
      IN  removed # {} =>
            IF UpdateStep
            THEN \A i \in removed :
                   obstacles[i].hasCollided = ~obstacles[i].hasBeenAvoided
            ELSE RestartRequestStep /\ obstacles' = <<>> ]_vars

\* the first obstacle of the session was missed, left the canvas and has
\* been removed from the pool
C36_Witness ==
  /\ Playing
  /\ obstacles = <<>>
  /\ score.current = 0
  /\ lives.current = lives.max - 1
  /\ ~hitZoneFlash.isFlashing
  /\ hitZoneFlash.progress = 0
  /\ obstacleSpawner.currentImageIndex = 1

\* C37: the passive-collision path never fires: the player never moves from
\* grid position (4, 4), whose staff line 4.0 is none of the nine spawn
\* lines, so the score rises and an obstacle becomes collided only in a
\* note-key press, and the hit-zone flash is never started with colour green
\* (it is green only as long as it has never been started).
C37_NoPassiveCollision ==
  /\ [](/\ ~movement.isMoving
        /\ player.pixelX = PLAYER_INITIAL_GRID_X * GRID_SIZE * 1000
        /\ player.pixelY = PLAYER_INITIAL_GRID_Y * GRID_SIZE * 1000
        /\ toFixed1GridY(getPixelY(player, movement))
             \notin {50 + randomIndex * 5 :
                       randomIndex \in 0..(STAFF_POSITIONS - 1)}
        /\ \A i \in DOMAIN obstacles :
             toFixed1GridY(obstacles[i].pixelY)
               \in {50 + randomIndex * 5 :
                      randomIndex \in 0..(STAFF_POSITIONS - 1)}
        /\ hitZoneFlash.isFlashing => hitZoneFlash.color = "red")
  /\ [][ score'.current > score.current => NoteKeyDownStep ]_vars
  /\ [][ LET delta == gameState'.elapsedTime - gameState.elapsedTime
         IN  \A j \in DOMAIN obstacles' :
               obstacles'[j].hasCollided =>
                 \E i \in DOMAIN obstacles :
                   /\ obstacles[i].imagePath = obstacles'[j].imagePath
                   /\ obstacles[i].pixelY = obstacles'[j].pixelY
                   /\ obstacles'[j].pixelX =
                        obstacles[i].pixelX - obstacles[i].speed * delta
                   /\ obstacles[i].hasCollided \/ NoteKeyDownStep ]_vars
  /\ [][ hitZoneFlash.color # "green" => hitZoneFlash'.color # "green" ]_vars

\* an obstacle was hit by a key press and has been fading over frame steps,
\* and the hit-zone flash has never been started
C37_Witness ==
  /\ Playing
  /\ score.current = 100
  /\ \E i \in DOMAIN obstacles :
       /\ obstacles[i].hasCollided
       /\ obstacles[i].fadeAnimation.progress > 0
  /\ hitZoneFlash.color = "green"
  /\ ~hitZoneFlash.isFlashing
  /\ ~movement.isMoving

----------------------------------------------------------------------------
(* Key presses with several obstacles on the canvas: on a canvas 784 px     *)
(* wide with the whole note selected, the first one, two or three obstacles *)
(* of a session at level 1 are 300 px apart (2 s at 150 px/s), so that two  *)
(* of them are inside the 400 px hit window at once.  The staff lines of    *)
(* the obstacles are drawn from 5.5, 6.5 and 9.0; the keys are e and c.     *)

PressKeys == {"e", "c"}

PressStaffIndices == {1, 3, 8}

\* pixelX of the youngest obstacle, 25, 30 or 35 frames after its spawn
PressYoungestXs == {724000, 712000, 700000}

PressPools ==
  UNION {
    {[i \in 1..n |->
        obstacleGenerator(x - (n - i) * 300000,
                          ((50 + idx[i] * 5) * GRID_SIZE * 1000) \div 10,
                          i - 1, getObstacleSpeed(1))] :
       idx \in [1..n -> PressStaffIndices]} :
    x \in PressYoungestXs, n \in 1..3}

InitPress ==
  /\ heldNoteKeys = {}
  /\ obstacles \in PressPools
  /\ obstacleSpawner =
       [timeSinceLastSpawn |->
          ((PressGameWidth * 1000 - obstacles[Len(obstacles)].pixelX)
             \div (getObstacleSpeed(1) * DELTA_CAP) - 1) * DELTA_CAP,
        currentImageIndex |-> Len(obstacles) % MONSTER_IMAGES]
  /\ gameState = [hasStarted |-> TRUE, isGameOver |-> FALSE,
                  isNoteKeyPressed |-> FALSE, currentNoteGridY |-> <<>>,
                  elapsedTime |-> getSpawnInterval(1) * Len(obstacles)
                                    + obstacleSpawner.timeSinceLastSpawn,
                  difficulty |-> 1]
  /\ lives = [current |-> MAX_LIVES, max |-> MAX_LIVES]
  /\ score = [current |-> 0]
  /\ uiState = [selectedNote |-> "whole"]
  /\ player = [pixelX |-> PLAYER_INITIAL_GRID_X * GRID_SIZE * 1000,
               pixelY |-> PLAYER_INITIAL_GRID_Y * GRID_SIZE * 1000,
               noteValue |-> "whole"]
  /\ movement = [isMoving |-> FALSE, moveProgress |-> 0,
                 nextPixelX |-> <<>>, nextPixelY |-> <<>>]
  /\ playerAnimation = [isAnimating |-> FALSE, progress |-> 0]
  /\ noteDisplay = [noteName |-> <<>>, displayTime |-> 0]
  /\ hitZoneFlash = [isFlashing |-> FALSE, color |-> "green", progress |-> 0]

\* a capped frame, up to MaxPressSince ms after the last spawn
PressFrame ==
  /\ simulationRuns
  /\ obstacleSpawner.timeSinceLastSpawn + DELTA_CAP <= MaxPressSince
  /\ updateOn(PressGameWidth, DELTA_CAP, 0)
  /\ UNCHANGED heldNoteKeys

PressKeyDown ==
  \E key \in PressKeys :
    /\ handleKeyDown(key)
    /\ heldNoteKeys' = heldNoteKeys \cup {key}

NextPress == PressFrame \/ PressKeyDown

SpecPress == InitPress /\ [][NextPress]_allVars

\* C38: a single key press during play adds 100 for each obstacle that is
\* not yet collided, has its centre in the hit window and is on a staff line
\* of the pressed letter, marks exactly those obstacles, and whenever it hits
\* at least one of them it takes no life and does not end the game, whatever
\* else is in the window; so no press both raises the score and takes a life.
C38_PressAwardsOrCosts ==
  [][ \A key \in PressKeys :
        Playing /\ handleKeyDown(key) =>
          LET hits == {i \in DOMAIN obstacles :
                         /\ ~obstacles[i].hasCollided
                         /\ centerInWindow(obstacles[i])
                         /\ lineOf(obstacles[i]) \in keyLines(key)}
          IN  /\ score'.current = score.current + 100 * Cardinality(hits)
              /\ Len(obstacles') = Len(obstacles)
              /\ \A i \in DOMAIN obstacles :
                   obstacles'[i].hasCollided <=>
                     obstacles[i].hasCollided \/ i \in hits
              /\ hits # {} => lives' = lives /\ ~gameState'.isGameOver
              /\ ~(score'.current > score.current
                     /\ lives'.current < lives.current) ]_vars

\* one press of e has hit an obstacle on line 5.5 and one on line 9.0, both
\* in the window, at no cost
C38_Witness ==
  /\ Playing
  /\ score.current = 200
  /\ lives.current = lives.max
  /\ heldNoteKeys = {"e"}
  /\ \E i, j \in DOMAIN obstacles :
       /\ lineOf(obstacles[i]) = 55 /\ lineOf(obstacles[j]) = 90
       /\ obstacles[i].hasCollided /\ obstacles[j].hasCollided
       /\ obstacles[i].fadeAnimation.progress = 0
       /\ obstacles[j].fadeAnimation.progress = 0
       /\ centerInWindow(obstacles[i]) /\ centerInWindow(obstacles[j])

----------------------------------------------------------------------------
(* The keyboard with two note keys: sessions in which the keys e and c go   *)
(* down and up in any order, R is pressed, and frames of the capped length  *)
(* pass, so that games end and are restarted with keys held.                *)

KeyboardKeys == {"e", "c", "R"}

KeyboardFrame == sessionFrameOn(GameWidth, LiveStaffIndices, 0, MaxSteps)

KeyboardKeyDown ==
  \E key \in KeyboardKeys :
    /\ handleKeyDown(key)
    /\ heldNoteKeys' = IF isNoteKey(key)
                       THEN heldNoteKeys \cup {key}
                       ELSE heldNoteKeys

KeyboardKeyUp ==
  \E key \in KeyboardKeys :
    /\ handleKeyUp(key)
    /\ heldNoteKeys' = heldNoteKeys \ {key}

NextKeyboard == StartClick \/ KeyboardFrame \/ KeyboardKeyDown \/ KeyboardKeyUp

SpecKeyboard == Init /\ [][NextKeyboard]_allVars

\* C39: in every reachable state gameState.isNoteKeyPressed is true exactly
\* when at least one note key is held down, and currentNoteGridY is non-null
\* exactly then.
C39_HeldFlagTracksKeyboard ==
  /\ gameState.isNoteKeyPressed <=> heldNoteKeys # {}
  /\ gameState.currentNoteGridY # <<>> <=> heldNoteKeys # {}

\* C40: every obstacle that can be spawned is hittable by exactly one key:
\* each of the nine spawn lines 5.0, 5.5, ..., 9.0 is a line of exactly one
\* of the letters c, d, e, f, g, a, b, every line of the letter table is one
\* of the nine spawn lines, and every obstacle in the pool is matched by the
\* lines of exactly one letter.
C40_OneKeyPerLine ==
  LET spawnLines == {50 + randomIndex * 5 :
                       randomIndex \in 0..(STAFF_POSITIONS - 1)}
      lettersOf(line) == {k \in DOMAIN NOTE_KEY_MAP :
                            \E n \in DOMAIN NOTE_KEY_MAP[k] :
                              NOTE_KEY_MAP[k][n] = line}
  IN  /\ DOMAIN NOTE_KEY_MAP = LetterKeys
      /\ \A line \in spawnLines : Cardinality(lettersOf(line)) = 1
      /\ \A k \in DOMAIN NOTE_KEY_MAP :
           \A n \in DOMAIN NOTE_KEY_MAP[k] : NOTE_KEY_MAP[k][n] \in spawnLines
      /\ \A i \in DOMAIN obstacles :
           /\ toFixed1GridY(obstacles[i].pixelY) \in spawnLines
           /\ Cardinality({k \in DOMAIN NOTE_KEY_MAP :
                             yMatch(NOTE_KEY_MAP[k], obstacles[i])}) = 1

\* an obstacle spawned on the top line 9.0 has been hit with the key e, the
\* only letter of that line
C40_Witness ==
  /\ Playing
  /\ heldNoteKeys = {"e"}
  /\ score.current = 100
  /\ \E i \in DOMAIN obstacles :
       /\ lineOf(obstacles[i]) = 90
       /\ obstacles[i].hasCollided
       /\ obstacles[i].fadeAnimation.progress = 0

====
